---- MODULE Spec2Model ----
(***************************************************************************)
(* A model of the quarantine_tools package: the flaky-test classifier and  *)
(* the failure-rate query (reportportal_client.py), the trend analysis,    *)
(* the cross-referencer and the quarantine health check (analyzer.py),     *)
(* and the marker transformer (helper.py).                                 *)
(*                                                                         *)
(* Every component has its own specification over the shared variables:    *)
(*   SpecTrend     analyze_flaky_tests' trend computation for one history  *)
(*   SpecRate      ReportPortalClient.get_test_failure_rate                *)
(*   SpecFlaky     ReportPortalClient.get_flaky_tests                      *)
(*   SpecHealth    check_quarantine_health                                 *)
(*   SpecCrossRef  cross_reference_quarantined                             *)
(*   SpecMarker    insert_quarantine_marker / remove_quarantine_marker     *)
(* The variables a specification does not use keep their idle values.      *)
(***************************************************************************)
EXTENDS Integers, Sequences, FiniteSets, TLC

VARIABLES
    pc,                 \* position of the running operation
    raised,             \* the exception the operation raised, "none" if none
    \* ---- trend / failure rate -------------------------------------------
    history,            \* get_test_history's result: statuses, most recent first
    trend,              \* trends[test_name] of analyze_flaky_tests
    rate,               \* get_test_failure_rate's result, in hundredths of a percent
    \* ---- get_flaky_tests ------------------------------------------------
    threshold,          \* the threshold argument
    launch_items,       \* the items of the launches in the window, in query order
    flaky_tests,        \* the returned list of FlakyTestInfo
    \* ---- check_quarantine_health / cross_reference_quarantined ----------
    tests_dir_exists,   \* (repo_path / "tests").exists()
    quarantined_list,   \* dashboard_stats.quarantined_list of the scan
    jira_checker,       \* TRUE iff the Jira checker could be imported
    rp_client,          \* TRUE iff create_reportportal_client returned a client
    consecutive_passes, \* the consecutive_passes argument
    loop_idx,           \* number of quarantined tests the loop has handled
    candidates,         \* the list of DeQuarantineCandidate built so far
    evaluated,          \* log: what each loop iteration saw and decided
    flaky_summary,      \* FlakySummary given to cross_reference_quarantined
    cross_reference,    \* the CrossReferenceResult returned
    \* ---- marker transformer ---------------------------------------------
    file,               \* content of the test file on disk, a sequence of lines
    pending,            \* content being written by write_text
    cur,                \* the operation in progress
    last,               \* the last finished operation and its outcome
    prev,               \* the operation finished before last
    nops                \* number of operations started

vars == << pc, raised, history, trend, rate, threshold, launch_items, flaky_tests,
           tests_dir_exists, quarantined_list, jira_checker, rp_client,
           consecutive_passes, loop_idx, candidates, evaluated, flaky_summary,
           cross_reference, file, pending, cur, last, prev, nops >>

trend_vars  == << history, trend, rate >>
flaky_vars  == << threshold, launch_items, flaky_tests >>
health_vars == << tests_dir_exists, quarantined_list, jira_checker, rp_client,
                  consecutive_passes, loop_idx, candidates, evaluated,
                  flaky_summary, cross_reference >>
marker_vars == << file, pending, cur, last, prev, nops >>

-----------------------------------------------------------------------------
(* Bounds of the model                                                     *)

MaxHistory == 5         \* longest history drawn for a test
MaxItems == 3           \* most items the launches of the window hold
MaxThreshold == 3       \* largest threshold drawn
MaxTime == 2            \* start times are drawn from 1..MaxTime

-----------------------------------------------------------------------------
(* Generic helpers                                                         *)

SeqsUpTo(S, n) == UNION { [1..k -> S] : k \in 0..n }

Statuses == { "PASSED", "FAILED", "SKIPPED", "UNKNOWN" }

Histories == SeqsUpTo(Statuses, MaxHistory)

\* sum(1 for outcome in outcomes if outcome.status == "FAILED") over statuses
RECURSIVE CountFailed(_)
CountFailed(outcomes) ==
    IF outcomes = << >> THEN 0
    ELSE (IF Head(outcomes) = "FAILED" THEN 1 ELSE 0) + CountFailed(Tail(outcomes))

-----------------------------------------------------------------------------
(* Idle values of the variables a specification does not use               *)

TrendIdle  == history = << >> /\ trend = "unset" /\ rate = 0
FlakyIdle  == threshold = 0 /\ launch_items = << >> /\ flaky_tests = << >>
HealthIdle ==
    /\ tests_dir_exists = TRUE /\ quarantined_list = << >>
    /\ jira_checker = FALSE /\ rp_client = FALSE /\ consecutive_passes = 0
    /\ loop_idx = 0 /\ candidates = << >> /\ evaluated = << >>
    /\ flaky_summary = << >>
    /\ cross_reference = [quarantine_candidates |-> << >>, dequarantine_candidates |-> << >>]
MarkerIdle ==
    /\ file = << >> /\ pending = << >>
    /\ cur = [kind |-> "none"] /\ last = [kind |-> "none"] /\ prev = [kind |-> "none"]
    /\ nops = 0

-----------------------------------------------------------------------------
(* Trend: analyzer.py, calculate_trend and the loop body of                *)
(* analyze_flaky_tests                                                     *)

calculate_trend(history_first_half, history_second_half) ==
    IF history_second_half < history_first_half THEN "improving"
    ELSE IF history_second_half > history_first_half THEN "worsening"
    ELSE "stable"

\* midpoint = len(history) // 2, rounded up instead of down
MidpointRoundedUp(h) == (Len(h) + 1) \div 2

\* midpoint = len(history) // 2
Midpoint(h) == Len(h) \div 2

\* history[:midpoint] and history[midpoint:]
FirstHalf(h)  == SubSeq(h, 1, Midpoint(h))
SecondHalf(h) == SubSeq(h, Midpoint(h) + 1, Len(h))

TrendOfHistory(h) ==
    calculate_trend(CountFailed(FirstHalf(h)), CountFailed(SecondHalf(h)))

InitTrend ==
    /\ pc = "start" /\ raised = "none"
    /\ history \in Histories /\ trend = "unset" /\ rate = 0
    /\ FlakyIdle /\ HealthIdle /\ MarkerIdle

\* one iteration of the loop "for flaky_test in flaky_tests", lines 205-214
AnalyzeTrend ==
    /\ pc = "start"
    /\ trend' = TrendOfHistory(history)
    /\ pc' = "done"
    /\ UNCHANGED << raised, history, rate, flaky_vars, health_vars, marker_vars >>

NextTrend == AnalyzeTrend

SpecTrend == InitTrend /\ [][NextTrend]_vars

-----------------------------------------------------------------------------
(* Failure rate: reportportal_client.py, get_test_failure_rate             *)

\* round(x, 2) of x = (num / den) * 100.0, as an integer number of hundredths;
\* Python rounds a tie to the even neighbour
Round2Percent(num, den) ==
    LET scaled == num * 10000
        q == scaled \div den
        r == scaled % den
    IN  IF 2 * r > den THEN q + 1
        ELSE IF 2 * r < den THEN q
        ELSE IF q % 2 = 0 THEN q ELSE q + 1

\* the value returned for a list of outcomes: 0.0 when the list is empty
get_test_failure_rate(outcomes) ==
    IF outcomes = << >> THEN 0
    ELSE Round2Percent(CountFailed(outcomes), Len(outcomes))

InitRate ==
    /\ pc = "start" /\ raised = "none"
    /\ history \in Histories /\ trend = "unset" /\ rate = 0
    /\ FlakyIdle /\ HealthIdle /\ MarkerIdle

\* get_test_history succeeded and returned history
GetTestFailureRate ==
    /\ pc = "start"
    /\ rate' = get_test_failure_rate(history)
    /\ pc' = "done"
    /\ UNCHANGED << raised, history, trend, flaky_vars, health_vars, marker_vars >>

\* get_test_history raised (HTTPError after the retries): nothing is returned
GetTestFailureRateFails ==
    /\ pc = "start"
    /\ raised' = "HTTPError"
    /\ pc' = "raised"
    /\ UNCHANGED << history, trend, rate, flaky_vars, health_vars, marker_vars >>

NextRate == GetTestFailureRate \/ GetTestFailureRateFails

SpecRate == InitRate /\ [][NextRate]_vars

\* C3: get_test_failure_rate for a test with zero outcomes does not raise and
\* returns a value different from the one it returns for any history of N > 0
\* runs without a failure.
C3_NoDataDistinguishable ==
    (pc = "done" /\ history = << >>) =>
        /\ raised = "none"
        /\ \A h \in Histories :
               (h # << >> /\ CountFailed(h) = 0) => rate # get_test_failure_rate(h)

-----------------------------------------------------------------------------
(* Trend claims                                                            *)

\* C8: the trend of an empty history and of a history of exactly one record,
\* whatever its status, is "stable".
C8_ShortHistoryStable ==
    (pc = "done" /\ Len(history) <= 1) => trend = "stable"

-----------------------------------------------------------------------------
(* Test identifiers.  An identifier is the sequence of its text fragments: *)
(* the separators ".", "/" and "::" are fragments of their own, so that    *)
(* splitting and replacing separators work on the fragments as the code's  *)
(* str.split and str.replace work on the characters.                       *)

NameQualified == << "tests", "/", "virt", "/", "test_x", ".", "py", "::", "test_a" >>
NameDotted    == << "tests", ".", "virt", ".", "test_x", ".", "test_a" >>
NameShort     == << "test_a" >>
NameOther     == << "tests", "/", "network", "/", "test_y", ".", "py", "::", "test_b" >>

-----------------------------------------------------------------------------
(* Flaky tests: reportportal_client.py, get_flaky_tests                    *)

ItemNames == { NameQualified, NameOther }

\* what _parse_test_item keeps of an item that this function reads
Items == [ name : ItemNames, status : Statuses, start_time : 1..MaxTime ]

Thresholds == (0 - 1)..MaxThreshold

\* test_results.setdefault(outcome.test_name, []).append(outcome), for every item;
\* the dict is the sequence of its entries in insertion order
RECURSIVE GroupItems(_, _)
GroupItems(items, test_results) ==
    IF items = << >> THEN test_results
    ELSE LET item == Head(items)
             outcome == [ status |-> item.status, start_time |-> item.start_time ]
             at == { i \in 1..Len(test_results) : test_results[i].name = item.name }
         IN  GroupItems(Tail(items),
                 IF at = {}
                 THEN Append(test_results, [ name |-> item.name, outcomes |-> << outcome >> ])
                 ELSE LET i == CHOOSE j \in at : TRUE
                      IN  [ test_results EXCEPT ![i].outcomes = Append(@, outcome) ])

\* [outcome for outcome in outcomes if outcome.status == "FAILED"]
IsFailure(outcome) == outcome.status = "FAILED"
Failures(outcomes) == SelectSeq(outcomes, IsFailure)

\* list.sort(key=start_time, reverse=True): stable, equal keys keep their order
InsertByStartTime(sorted, x) ==
    LET n == Cardinality({ i \in 1..Len(sorted) : sorted[i].start_time >= x.start_time })
    IN  SubSeq(sorted, 1, n) \o << x >> \o SubSeq(sorted, n + 1, Len(sorted))

RECURSIVE SortByStartTimeDesc(_, _)
SortByStartTimeDesc(rest, sorted) ==
    IF rest = << >> THEN sorted
    ELSE SortByStartTimeDesc(Tail(rest), InsertByStartTime(sorted, Head(rest)))

\* flaky_tests.sort(key=failure_count, reverse=True)
InsertByFailureCount(sorted, x) ==
    LET n == Cardinality({ i \in 1..Len(sorted) : sorted[i].failure_count >= x.failure_count })
    IN  SubSeq(sorted, 1, n) \o << x >> \o SubSeq(sorted, n + 1, Len(sorted))

RECURSIVE SortByFailureCountDesc(_, _)
SortByFailureCountDesc(rest, sorted) ==
    IF rest = << >> THEN sorted
    ELSE SortByFailureCountDesc(Tail(rest), InsertByFailureCount(sorted, Head(rest)))

\* if failure_count >= threshold
IsFlaky(failure_count, thr) == failure_count >= thr

\* failures[0] of an empty list raises IndexError
RaisesIndexError(entry, thr) ==
    IsFlaky(Len(Failures(entry.outcomes)), thr) /\ Failures(entry.outcomes) = << >>

\* the FlakyTestInfo built for one entry of test_results; failure_rate is the
\* quotient failure_count / total_runs, kept as numerator and denominator
FlakyTestInfoOf(entry) ==
    LET failures == Failures(entry.outcomes)
        last_failure == SortByStartTimeDesc(failures, << >>)[1]
    IN  [ test_name |-> entry.name,
          failure_count |-> Len(failures),
          total_runs |-> Len(entry.outcomes),
          failure_rate |-> [ num |-> Len(failures), den |-> Len(entry.outcomes) ],
          last_failure_time |-> last_failure.start_time ]

\* the loop "for name, outcomes in test_results.items()", without the final sort
RECURSIVE CollectFlaky(_, _)
CollectFlaky(test_results, thr) ==
    IF test_results = << >> THEN << >>
    ELSE LET entry == Head(test_results)
             rest == CollectFlaky(Tail(test_results), thr)
         IN  IF IsFlaky(Len(Failures(entry.outcomes)), thr)
             THEN << FlakyTestInfoOf(entry) >> \o rest
             ELSE rest

InitFlaky ==
    /\ pc = "start" /\ raised = "none"
    /\ threshold \in Thresholds
    /\ launch_items \in SeqsUpTo(Items, MaxItems)
    /\ flaky_tests = << >>
    /\ TrendIdle /\ HealthIdle /\ MarkerIdle

\* get_flaky_tests returns: no launch or no item gives [], else the sorted list
GetFlakyTests ==
    /\ pc = "start"
    /\ LET test_results == GroupItems(launch_items, << >>)
       IN  /\ \A i \in 1..Len(test_results) : ~RaisesIndexError(test_results[i], threshold)
           /\ flaky_tests' = SortByFailureCountDesc(CollectFlaky(test_results, threshold), << >>)
    /\ pc' = "done"
    /\ UNCHANGED << raised, threshold, launch_items, trend_vars, health_vars, marker_vars >>

\* get_flaky_tests raises at "last_failure = failures[0]"
GetFlakyTestsRaises ==
    /\ pc = "start"
    /\ LET test_results == GroupItems(launch_items, << >>)
       IN  \E i \in 1..Len(test_results) : RaisesIndexError(test_results[i], threshold)
    /\ raised' = "IndexError"
    /\ pc' = "raised"
    /\ UNCHANGED << threshold, launch_items, flaky_tests, trend_vars, health_vars, marker_vars >>

NextFlaky == GetFlakyTests \/ GetFlakyTestsRaises

SpecFlaky == InitFlaky /\ [][NextFlaky]_vars

\* failure count and run count of a test, recounted from the items
ItemsOf(name) == { i \in 1..Len(launch_items) : launch_items[i].name = name }
FailedItemsOf(name) == { i \in ItemsOf(name) : launch_items[i].status = "FAILED" }

\* C10: for every threshold and every test observed in the window,
\* get_flaky_tests does not return a test whose failure count is threshold - 1,
\* and it returns, without raising, a FlakyTestInfo for a test whose failure
\* count is the threshold, with failure_rate = failure_count / total_runs.
C10_ThresholdBoundary ==
    pc \in { "done", "raised" } =>
        \A name \in ItemNames :
            ItemsOf(name) # {} =>
                LET fc == Cardinality(FailedItemsOf(name))
                    total == Cardinality(ItemsOf(name))
                IN  /\ fc = threshold - 1 =>
                           \A i \in 1..Len(flaky_tests) : flaky_tests[i].test_name # name
                    /\ fc = threshold =>
                           /\ raised = "none"
                           /\ \E i \in 1..Len(flaky_tests) :
                                  /\ flaky_tests[i].test_name = name
                                  /\ flaky_tests[i].failure_count = fc
                                  /\ flaky_tests[i].total_runs = total
                                  /\ flaky_tests[i].failure_rate = [ num |-> fc, den |-> total ]

\* C10 for thresholds of at least 1, where a flaky test has a failure
C10_ThresholdBoundaryPositive == threshold >= 1 => C10_ThresholdBoundary

-----------------------------------------------------------------------------
(* Health check: analyzer.py, check_quarantine_health                      *)

MaxQuarantined == 2     \* most records the scan returns
MaxStreak == 6          \* longest run of leading PASSED results drawn
DefaultConsecutivePasses == 5

\* the scan's record of a test: name, linked ticket ("" when none) and the flag
\* telling that the marker is present (file_path and category are copied to the
\* candidate unread and are left out)
ScanNames == << NameQualified, NameOther, NameDotted, NameShort >>
ScanRecord(i, ticket, flag) ==
    [ name |-> ScanNames[((i - 1) % Len(ScanNames)) + 1], jira_ticket |-> ticket, is_quarantined |-> flag ]

\* scan results: the i-th record is about the i-th test name
ScanResults ==
    UNION { { [ i \in 1..k |-> ScanRecord(i, t[i], q[i]) ] :
                t \in [1..k -> { "", "CNV-1" }], q \in [1..k -> BOOLEAN] } :
            k \in 0..MaxQuarantined }

\* [test_info for test_info in quarantined_list if test_info.is_quarantined]
IsMarked(test_info) == test_info.is_quarantined
QuarantinedTests(list) == SelectSeq(list, IsMarked)

\* the unfiltered list
AllScanned(list) == list

\* Jira status names and str.lower on them
JiraStatusNames == { "Closed", "Resolved", "Done", "Open", "CLOSED" }
Lower(name) ==
    CASE name = "Closed" -> "closed"
      [] name = "CLOSED" -> "closed"
      [] name = "Resolved" -> "resolved"
      [] name = "Done" -> "done"
      [] name = "Open" -> "open"

\* quarantine_jira.py, check_quarantine_ticket_resolved, given the issue's status
check_quarantine_ticket_resolved(status_name) ==
    Lower(status_name) \in { "closed", "resolved" }

\* histories the Results Store answers with: a run of PASSED, then a tail
RECURSIVE Passes(_)
Passes(n) == IF n = 0 THEN << >> ELSE << "PASSED" >> \o Passes(n - 1)
HistoryTails ==
    { << >>, << "FAILED" >>, << "SKIPPED" >>, << "UNKNOWN" >>, << "FAILED", "PASSED" >> }
HealthHistories == { Passes(n) \o tail : n \in 0..MaxStreak, tail \in HistoryTails }

\* the count of every PASSED result of the history, past the first other result
RECURSIVE CountEveryPass(_)
CountEveryPass(outcomes) ==
    IF outcomes = << >> THEN 0
    ELSE (IF Head(outcomes) = "PASSED" THEN 1 ELSE 0) + CountEveryPass(Tail(outcomes))

\* the loop of _count_consecutive_passes
RECURSIVE _count_consecutive_passes(_)
_count_consecutive_passes(outcomes) ==
    IF outcomes = << >> THEN 0
    ELSE IF Head(outcomes) = "PASSED" THEN 1 + _count_consecutive_passes(Tail(outcomes))
    ELSE 0

\* the reason table with the two single-signal rows exchanged
ReasonRowsExchanged(jira_is_resolved, passes_consistently) ==
    IF jira_is_resolved /\ passes_consistently THEN "both"
    ELSE IF jira_is_resolved THEN "passing_consistently"
    ELSE IF passes_consistently THEN "jira_resolved"
    ELSE "None"

\* "None" stands for the None the function returns
_determine_dequarantine_reason(jira_is_resolved, passes_consistently) ==
    IF jira_is_resolved /\ passes_consistently THEN "both"
    ELSE IF jira_is_resolved THEN "jira_resolved"
    ELSE IF passes_consistently THEN "passing_consistently"
    ELSE "None"

\* pass_count > consecutive_passes
PassesMoreThan(pass_count, required) == pass_count > required

\* passes_consistently = pass_count >= consecutive_passes
PassesConsistently(pass_count, required) == pass_count >= required

NoEvaluation == [ kind |-> "none" ]

\* the pass count of the iteration before, kept when the query fails
StalePassCount == IF evaluated.kind = "test" THEN evaluated.pass_count ELSE 0

\* a ticket that was not looked up counts as resolved
AssumeResolved == TRUE

\* lines 424-425: each iteration starts with jira_is_resolved = False, pass_count = 0
InitialJiraIsResolved == FALSE
InitialPassCount == 0

InitHealth ==
    /\ pc = "start" /\ raised = "none"
    /\ tests_dir_exists \in BOOLEAN
    /\ consecutive_passes \in { 1, DefaultConsecutivePasses }
    /\ quarantined_list = << >> /\ jira_checker = FALSE /\ rp_client = FALSE
    /\ loop_idx = 0 /\ candidates = << >> /\ evaluated = NoEvaluation
    /\ flaky_summary = << >>
    /\ cross_reference = [quarantine_candidates |-> << >>, dequarantine_candidates |-> << >>]
    /\ TrendIdle /\ FlakyIdle /\ MarkerIdle

\* lines 389-392: no tests directory, return []
HealthNoTestsDir ==
    /\ pc = "start" /\ ~tests_dir_exists
    /\ pc' = "done"
    /\ UNCHANGED << raised, trend_vars, flaky_vars, health_vars, marker_vars >>

\* lines 394-420: scan, filter, try the Jira import, try the ReportPortal client
HealthScan ==
    /\ pc = "start" /\ tests_dir_exists
    /\ \E scan \in ScanResults : quarantined_list' = scan
    /\ jira_checker' \in BOOLEAN
    /\ rp_client' \in BOOLEAN
    /\ pc' = "loop"
    /\ UNCHANGED << raised, tests_dir_exists, consecutive_passes, loop_idx, candidates,
                    evaluated, flaky_summary, cross_reference,
                    trend_vars, flaky_vars, marker_vars >>

\* one iteration of "for test_info in quarantined_tests", lines 422-472.
\* jira_answer is the status name of the issue or "error" when the query raised;
\* rp_answer is the history returned or << "error" >> when the query raised.
EvaluateTest(jira_answer, rp_answer) ==
    /\ pc = "loop"
    /\ loop_idx < Len(QuarantinedTests(quarantined_list))
    /\ LET test_info == QuarantinedTests(quarantined_list)[loop_idx + 1]
           jira_ticket == test_info.jira_ticket
           jira_asked == jira_ticket # "" /\ jira_checker
           rp_asked == rp_client
           jira_is_resolved ==
               IF jira_asked /\ jira_answer # "error"
               THEN check_quarantine_ticket_resolved(jira_answer) ELSE InitialJiraIsResolved
           pass_count ==
               IF rp_asked /\ rp_answer # << "error" >>
               THEN _count_consecutive_passes(rp_answer) ELSE InitialPassCount
           passes_consistently == PassesConsistently(pass_count, consecutive_passes)
           reason == _determine_dequarantine_reason(jira_is_resolved, passes_consistently)
       IN  /\ (~jira_asked => jira_answer = "error")
           /\ (~rp_asked => rp_answer = << "error" >>)
           /\ candidates' =
                  IF reason # "None"
                  THEN Append(candidates,
                           [ test_name |-> test_info.name,
                             jira_ticket |-> jira_ticket,
                             reason |-> reason,
                             consecutive_pass_count |-> pass_count,
                             jira_resolved |-> jira_is_resolved ])
                  ELSE candidates
           /\ evaluated' =
                  [ kind |-> "test", test_info |-> test_info,
                    jira_asked |-> jira_asked, jira_answer |-> jira_answer,
                    rp_asked |-> rp_asked, rp_answer |-> rp_answer,
                    jira_is_resolved |-> jira_is_resolved, pass_count |-> pass_count,
                    reason |-> reason, n_candidates |-> Len(candidates) ]
    /\ loop_idx' = loop_idx + 1
    /\ UNCHANGED << pc, raised, tests_dir_exists, quarantined_list, jira_checker, rp_client,
                    consecutive_passes, flaky_summary, cross_reference,
                    trend_vars, flaky_vars, marker_vars >>

EvaluateNext ==
    \E jira_answer \in JiraStatusNames \cup { "error" },
       rp_answer \in HealthHistories \cup { << "error" >> } :
        EvaluateTest(jira_answer, rp_answer)

\* lines 474-478: close the client and return the candidates
HealthReturn ==
    /\ pc = "loop"
    /\ loop_idx = Len(QuarantinedTests(quarantined_list))
    /\ pc' = "done"
    /\ UNCHANGED << raised, trend_vars, flaky_vars, health_vars, marker_vars >>

NextHealth == HealthNoTestsDir \/ HealthScan \/ EvaluateNext \/ HealthReturn

SpecHealth == InitHealth /\ [][NextHealth]_vars

\* the length of the longest prefix of h in which every status is PASSED
LeadingPasses(h) ==
    CHOOSE k \in 0..Len(h) :
        /\ \A i \in 1..k : h[i] = "PASSED"
        /\ k = Len(h) \/ h[k + 1] # "PASSED"

\* the streak the last iteration had to find: 0 when the Results Store was not
\* asked or the query failed
StreakSeen ==
    IF evaluated.rp_asked /\ evaluated.rp_answer # << "error" >>
    THEN LeadingPasses(evaluated.rp_answer) ELSE 0

\* the last iteration appended a candidate with this reason for its test
Emitted(reason) ==
    /\ Len(candidates) = evaluated.n_candidates + 1
    /\ candidates[Len(candidates)].test_name = evaluated.test_info.name
    /\ candidates[Len(candidates)].reason = reason

\* C1: for every quarantined test that check_quarantine_health evaluates, with
\* ticket_resolved the result of the ticket query and passes_consistently the
\* comparison streak >= threshold, the outcome follows the reason table:
\* (true, true) "both", (true, false) "jira_resolved", (false, true)
\* "passing_consistently", (false, false) no candidate.
C1_HealthReasonTable ==
    evaluated.kind = "test" =>
        LET ticket_resolved == evaluated.jira_is_resolved
            passes_consistently == StreakSeen >= consecutive_passes
        IN  /\ (ticket_resolved /\ passes_consistently) => Emitted("both")
            /\ (ticket_resolved /\ ~passes_consistently) => Emitted("jira_resolved")
            /\ (~ticket_resolved /\ passes_consistently) => Emitted("passing_consistently")
            /\ (~ticket_resolved /\ ~passes_consistently) =>
                   /\ Len(candidates) = evaluated.n_candidates
                   /\ evaluated.reason = "None"

C1_Witness ==
    /\ evaluated.kind = "test"
    /\ Len(candidates) = 2
    /\ candidates[1].reason = "jira_resolved"
    /\ candidates[2].reason = "both"
    /\ evaluated.jira_is_resolved
    /\ StreakSeen >= consecutive_passes

\* the Results Store answered the query of the last iteration with a history
HistorySeen == evaluated.kind = "test" /\ evaluated.rp_asked /\ evaluated.rp_answer # << "error" >>

\* C13: the streak counted for a history (most recent first) is the length of
\* its longest prefix of PASSED results, 0 for the empty history, and it is
\* the consecutive_pass_count of the candidate emitted; with the ticket
\* unresolved, 6 leading passes and threshold 5 the candidate has reason
\* "passing_consistently" and count 6.
C13_StreakIsLeadingPasses ==
    HistorySeen =>
        /\ evaluated.pass_count = LeadingPasses(evaluated.rp_answer)
        /\ evaluated.rp_answer = << >> => evaluated.pass_count = 0
        /\ Len(candidates) = evaluated.n_candidates + 1 =>
              candidates[Len(candidates)].consecutive_pass_count
                  = LeadingPasses(evaluated.rp_answer)
        /\ ( /\ ~evaluated.jira_is_resolved
             /\ LeadingPasses(evaluated.rp_answer) = 6
             /\ consecutive_passes = 5 )
           => /\ Emitted("passing_consistently")
              /\ candidates[Len(candidates)].consecutive_pass_count = 6

\* six passes, then a failure and an older pass, ticket unresolved, threshold 5
C13_Witness ==
    /\ HistorySeen
    /\ evaluated.rp_answer = Passes(6) \o << "FAILED", "PASSED" >>
    /\ ~evaluated.jira_is_resolved
    /\ consecutive_passes = 5
    /\ Emitted("passing_consistently")
    /\ candidates[Len(candidates)].consecutive_pass_count = 6

\* a query of the iteration logged in e raised
JiraFailed(e) == e.jira_asked /\ e.jira_answer = "error"
HistoryFailed(e) == e.rp_asked /\ e.rp_answer = << "error" >>

\* what the iteration logged in e has to find from its own answers alone
OwnResolved(e) ==
    e.jira_asked /\ e.jira_answer # "error" /\ Lower(e.jira_answer) \in { "closed", "resolved" }
OwnStreak(e) ==
    IF e.rp_asked /\ e.rp_answer # << "error" >> THEN LeadingPasses(e.rp_answer) ELSE 0

\* the run goes on: nothing is raised, and the function returns only after the
\* loop handled every quarantined test
RunNotAborted ==
    /\ raised = "none"
    /\ pc \in { "start", "loop", "done" }
    /\ (pc = "done" /\ tests_dir_exists) =>
          loop_idx = Len(QuarantinedTests(quarantined_list))

\* a failed query counts as ticket unresolved, respectively as streak 0
FailureIsNoSignal ==
    evaluated.kind = "test" =>
        /\ JiraFailed(evaluated) => ~evaluated.jira_is_resolved
        /\ HistoryFailed(evaluated) => evaluated.pass_count = 0

\* the iteration that follows one with a failed query evaluates the next
\* test, with the result its own answers give
NextTestUnaffected ==
    ( /\ evaluated.kind = "test"
      /\ JiraFailed(evaluated) \/ HistoryFailed(evaluated)
      /\ loop_idx' = loop_idx + 1 )
    => /\ evaluated'.kind = "test"
       /\ evaluated'.test_info = QuarantinedTests(quarantined_list)[loop_idx + 1]
       /\ evaluated'.jira_is_resolved = OwnResolved(evaluated')
       /\ evaluated'.pass_count = OwnStreak(evaluated')
       /\ evaluated'.reason =
              _determine_dequarantine_reason(OwnResolved(evaluated'),
                                             OwnStreak(evaluated') >= consecutive_passes)

\* C14: a failing Ticket Store or Results Store query for one quarantined test
\* does not abort check_quarantine_health: that test is evaluated with the
\* ticket unresolved (respectively streak 0), and every other quarantined test
\* is evaluated with the result its own answers give.
C14_FaultIsolation ==
    [](RunNotAborted /\ FailureIsNoSignal) /\ [][NextTestUnaffected]_vars

\* the run returned; the first test kept its candidate and the second, whose
\* two queries failed, was evaluated without a signal
C14_Witness ==
    /\ pc = "done"
    /\ loop_idx = 2
    /\ evaluated.kind = "test"
    /\ JiraFailed(evaluated) /\ HistoryFailed(evaluated)
    /\ evaluated.reason = "None"
    /\ Len(candidates) = 1
    /\ candidates[1].reason = "both"

\* the stores check_quarantine_health found: the Jira checker was imported,
\* the ReportPortal client was created
Scanned == pc \in { "loop", "done" } /\ tests_dir_exists

\* C15: with neither the Ticket Store nor the Results Store available
\* check_quarantine_health raises nothing and has no candidate; with only the
\* Results Store the candidates are exactly the tests with a long enough streak,
\* all with reason "passing_consistently"; with only the Ticket Store they are
\* exactly the tests with a resolved ticket, all with reason "jira_resolved".
C15_DegradedMode ==
    /\ raised = "none"
    /\ Scanned =>
          /\ (~jira_checker /\ ~rp_client) => candidates = << >>
          /\ ~jira_checker =>
                /\ \A i \in 1..Len(candidates) :
                      /\ candidates[i].reason = "passing_consistently"
                      /\ ~candidates[i].jira_resolved
                /\ (evaluated.kind = "test" /\ StreakSeen >= consecutive_passes)
                      => Emitted("passing_consistently")
          /\ ~rp_client =>
                /\ \A i \in 1..Len(candidates) :
                      /\ candidates[i].reason = "jira_resolved"
                      /\ candidates[i].consecutive_pass_count = 0
                /\ (evaluated.kind = "test" /\ OwnResolved(evaluated))
                      => Emitted("jira_resolved")

\* without the Ticket Store two tests with linked tickets were evaluated and
\* both are candidates by their streak alone
C15_Witness ==
    /\ pc = "done"
    /\ ~jira_checker /\ rp_client
    /\ Len(candidates) = 2
    /\ \A i \in 1..2 :
          /\ candidates[i].jira_ticket = "CNV-1"
          /\ candidates[i].reason = "passing_consistently"

-----------------------------------------------------------------------------
(* Teams: analyzer.py, TEAM_MARKERS, DIRECTORY_TO_TEAM and                 *)
(* determine_team_from_test_name                                           *)

TEAM_MARKERS ==
    << [ team |-> "chaos", directories |-> << "chaos", "deprecated_api" >> ],
       [ team |-> "virt", directories |-> << "virt", "deprecated_api" >> ],
       [ team |-> "network", directories |-> << "network", "deprecated_api" >> ],
       [ team |-> "storage", directories |-> << "storage", "deprecated_api" >> ],
       [ team |-> "iuo", directories |-> << "install_upgrade_operators", "deprecated_api" >> ],
       [ team |-> "observability", directories |-> << "observability", "deprecated_api" >> ],
       [ team |-> "infrastructure", directories |-> << "infrastructure", "deprecated_api" >> ],
       [ team |-> "data_protection", directories |-> << "data_protection", "deprecated_api" >> ] >>

\* the two loops that fill DIRECTORY_TO_TEAM: the first team listing a directory wins
RECURSIVE AddDirectories(_, _, _)
AddDirectories(team, directories, map) ==
    IF directories = << >> THEN map
    ELSE AddDirectories(team, Tail(directories),
             IF \E e \in map : e.directory = Head(directories)
             THEN map
             ELSE map \cup { [ directory |-> Head(directories), team |-> team ] })

RECURSIVE AddTeams(_, _)
AddTeams(markers, map) ==
    IF markers = << >> THEN map
    ELSE AddTeams(Tail(markers),
                  AddDirectories(Head(markers).team, Head(markers).directories, map))

DIRECTORY_TO_TEAM == AddTeams(TEAM_MARKERS, {})

\* test_name.replace(".", "/").replace("::", "/")
ReplaceSeparators(test_name) ==
    [ i \in 1..Len(test_name) |->
        IF test_name[i] \in { ".", "::" } THEN "/" ELSE test_name[i] ]

\* normalized.split("/"): in an identifier separators and other fragments
\* alternate, so the parts are the fragments that are no separator
IsPart(fragment) == fragment # "/"
Parts(test_name) == SelectSeq(ReplaceSeparators(test_name), IsPart)

\* the team of the last part that is a known directory
RECURSIVE LastKnownTeam(_)
LastKnownTeam(parts) ==
    IF parts = << >> THEN "unknown"
    ELSE IF \E e \in DIRECTORY_TO_TEAM : e.directory = parts[Len(parts)]
         THEN (CHOOSE e \in DIRECTORY_TO_TEAM : e.directory = parts[Len(parts)]).team
         ELSE LastKnownTeam(SubSeq(parts, 1, Len(parts) - 1))

RECURSIVE FirstKnownTeam(_)
FirstKnownTeam(parts) ==
    IF parts = << >> THEN "unknown"
    ELSE IF \E e \in DIRECTORY_TO_TEAM : e.directory = Head(parts)
         THEN (CHOOSE e \in DIRECTORY_TO_TEAM : e.directory = Head(parts)).team
         ELSE FirstKnownTeam(Tail(parts))

determine_team_from_test_name(test_name) == FirstKnownTeam(Parts(test_name))

-----------------------------------------------------------------------------
(* Cross-reference: analyzer.py, cross_reference_quarantined               *)

MaxFlaky == 2           \* most flaky tests in the summary

\* the index of the last "::" fragment, 0 if there is none
LastSeparator(test_name) ==
    LET at == { i \in 1..Len(test_name) : test_name[i] = "::" }
    IN  IF at = {} THEN 0 ELSE CHOOSE i \in at : \A j \in at : j <= i

\* test_name.split("::")[-1] if "::" in test_name else test_name
_normalize_test_name(test_name) ==
    SubSeq(test_name, LastSeparator(test_name) + 1, Len(test_name))

\* by_team of analyze_flaky_tests: the dict as the sequence of its entries
RECURSIVE GroupByTeam(_, _)
GroupByTeam(tests, by_team) ==
    IF tests = << >> THEN by_team
    ELSE LET flaky_test == Head(tests)
             team == determine_team_from_test_name(flaky_test.test_name)
             at == { i \in 1..Len(by_team) : by_team[i].team = team }
         IN  GroupByTeam(Tail(tests),
                 IF at = {}
                 THEN Append(by_team, [ team |-> team, tests |-> << flaky_test >> ])
                 ELSE LET i == CHOOSE j \in at : TRUE
                      IN  [ by_team EXCEPT ![i].tests = Append(@, flaky_test) ])

\* the flaky records in the order "for team_tests in by_team.values(): for flaky_test in team_tests"
RECURSIVE FlattenTeams(_)
FlattenTeams(by_team) ==
    IF by_team = << >> THEN << >> ELSE Head(by_team).tests \o FlattenTeams(Tail(by_team))

\* all_flaky_by_name[short_name] = flaky_test, the dict as the sequence of its entries
RECURSIVE FlakyByName(_, _)
FlakyByName(tests, by_name) ==
    IF tests = << >> THEN by_name
    ELSE LET flaky_test == Head(tests)
             short_name == _normalize_test_name(flaky_test.test_name)
             at == { i \in 1..Len(by_name) : by_name[i].short_name = short_name }
         IN  FlakyByName(Tail(tests),
                 IF at = {}
                 THEN Append(by_name, [ short_name |-> short_name, info |-> flaky_test ])
                 ELSE LET i == CHOOSE j \in at : TRUE
                      IN  [ by_name EXCEPT ![i].info = flaky_test ])

\* { _normalize_test_name(test_info.name) for test_info in quarantined_list }
QuarantinedNames(list) == { _normalize_test_name(list[i].name) : i \in 1..Len(list) }

\* the loop "for test_name, flaky_info in all_flaky_by_name.items()"
RECURSIVE QuarantineCandidates(_, _)
QuarantineCandidates(by_name, quarantined_names) ==
    IF by_name = << >> THEN << >>
    ELSE LET rest == QuarantineCandidates(Tail(by_name), quarantined_names)
         IN  IF Head(by_name).short_name \notin quarantined_names
             THEN << Head(by_name).info >> \o rest
             ELSE rest

\* if failure_rate == 0.0
IsDequarantineRate(outcomes) == get_test_failure_rate(outcomes) = 0

\* the loop "for quarantined_test in dashboard_stats.quarantined_list";
\* answers[i] is the history the Results Store returns for the i-th record
RECURSIVE DequarantineCandidates(_, _, _)
DequarantineCandidates(list, answers, i) ==
    IF i > Len(list) THEN << >>
    ELSE LET rest == DequarantineCandidates(list, answers, i + 1)
         IN  IF IsDequarantineRate(answers[i])
             THEN << list[i].name >> \o rest
             ELSE rest

\* the flaky records of a summary: distinct identifiers, told apart by failure_count
FlakyNames == { NameQualified, NameDotted, NameShort, NameOther }
FlakyLists ==
    { tests \in SeqsUpTo(FlakyNames, MaxFlaky) :
        \A i, j \in 1..Len(tests) : i # j => tests[i] # tests[j] }
FlakyInfos(names) ==
    [ i \in 1..Len(names) |-> [ test_name |-> names[i], failure_count |-> 10 - i ] ]

\* answers of the Results Store to get_test_history in this function
CrossRefAnswers ==
    { << >>, << "PASSED" >>, << "FAILED" >>, << "PASSED", "FAILED" >>, << "SKIPPED" >>,
      << "error" >> }

EmptyCrossReference == [ quarantine_candidates |-> << >>, dequarantine_candidates |-> << >> ]

InitCrossRef ==
    /\ pc = "start" /\ raised = "none"
    /\ tests_dir_exists \in BOOLEAN
    /\ \E names \in FlakyLists : flaky_summary = GroupByTeam(FlakyInfos(names), << >>)
    /\ quarantined_list = << >> /\ jira_checker = FALSE /\ rp_client = TRUE
    /\ consecutive_passes = 0 /\ loop_idx = 0 /\ candidates = << >>
    /\ evaluated = NoEvaluation
    /\ cross_reference = EmptyCrossReference
    /\ TrendIdle /\ FlakyIdle /\ MarkerIdle

\* lines 263-266: no tests directory, both lists empty
CrossRefNoTestsDir ==
    /\ pc = "start" /\ ~tests_dir_exists
    /\ cross_reference' = EmptyCrossReference
    /\ pc' = "done"
    /\ UNCHANGED << raised, tests_dir_exists, quarantined_list, jira_checker, rp_client,
                    consecutive_passes, loop_idx, candidates, evaluated, flaky_summary,
                    trend_vars, flaky_vars, marker_vars >>

\* lines 268-309 when every failure-rate query answers
CrossReference(scan, answers) ==
    /\ pc = "start" /\ tests_dir_exists
    /\ \A i \in 1..Len(scan) : answers[i] # << "error" >>
    /\ quarantined_list' = scan
    /\ evaluated' = [ kind |-> "crossref", answers |-> answers ]
    /\ cross_reference' =
           [ quarantine_candidates |->
                 QuarantineCandidates(FlakyByName(FlattenTeams(flaky_summary), << >>),
                                      QuarantinedNames(scan)),
             dequarantine_candidates |-> DequarantineCandidates(scan, answers, 1) ]
    /\ pc' = "done"
    /\ UNCHANGED << raised, tests_dir_exists, jira_checker, rp_client, consecutive_passes,
                    loop_idx, candidates, flaky_summary,
                    trend_vars, flaky_vars, marker_vars >>

\* line 295 raises: a failure-rate query failed and nothing is returned
CrossReferenceRaises(scan, answers) ==
    /\ pc = "start" /\ tests_dir_exists
    /\ \E i \in 1..Len(scan) : answers[i] = << "error" >>
    /\ quarantined_list' = scan
    /\ evaluated' = [ kind |-> "crossref", answers |-> answers ]
    /\ raised' = "HTTPError"
    /\ pc' = "raised"
    /\ UNCHANGED << tests_dir_exists, jira_checker, rp_client, consecutive_passes,
                    loop_idx, candidates, flaky_summary, cross_reference,
                    trend_vars, flaky_vars, marker_vars >>

CrossRefReturns ==
    \E scan \in ScanResults : \E answers \in [1..Len(scan) -> CrossRefAnswers] :
        CrossReference(scan, answers)

CrossRefFails ==
    \E scan \in ScanResults : \E answers \in [1..Len(scan) -> CrossRefAnswers] :
        CrossReferenceRaises(scan, answers)

NextCrossRef == CrossRefNoTestsDir \/ CrossRefReturns \/ CrossRefFails

SpecCrossRef == InitCrossRef /\ [][NextCrossRef]_vars

\* C2: a quarantined record whose history in the window is empty is not among
\* the de-quarantine candidates of cross_reference_quarantined.
C2_NoDataIsNoCandidate ==
    (pc = "done" /\ evaluated.kind = "crossref") =>
        \A i \in 1..Len(quarantined_list) :
            evaluated.answers[i] = << >> =>
                \A j \in 1..Len(cross_reference.dequarantine_candidates) :
                    cross_reference.dequarantine_candidates[j] # quarantined_list[i].name

\* the flaky records given to cross_reference_quarantined and the candidates returned
FlakyRecords == FlattenTeams(flaky_summary)
Candidate(j) == cross_reference.quarantine_candidates[j]
CrossReferenced == pc = "done" /\ evaluated.kind = "crossref"

\* C11: no quarantine candidate has its normalized name in the normalized
\* quarantined set, and every flaky record whose normalized name is not in that
\* set is among the quarantine candidates, also when flaky records share one
\* normalized name.
C11_CrossReferencePartition ==
    CrossReferenced =>
        /\ \A j \in 1..Len(cross_reference.quarantine_candidates) :
              _normalize_test_name(Candidate(j).test_name)
                  \notin QuarantinedNames(quarantined_list)
        /\ \A i \in 1..Len(FlakyRecords) :
              _normalize_test_name(FlakyRecords[i].test_name)
                  \notin QuarantinedNames(quarantined_list)
              => \E j \in 1..Len(cross_reference.quarantine_candidates) :
                    Candidate(j) = FlakyRecords[i]

\* the function-name component after the last qualifier separator, whatever
\* the qualification style
Qualifiers == { "::", ".", "/" }
TrailingComponent(test_name) ==
    LET at == { i \in 1..Len(test_name) : test_name[i] \in Qualifiers }
    IN  IF at = {} THEN test_name
        ELSE SubSeq(test_name, (CHOOSE i \in at : \A j \in at : j <= i) + 1, Len(test_name))

\* C12: a flaky record that names the same function as a quarantined record,
\* in whatever qualification style ('a.b.test_f', 'a/b.py::test_f', 'test_f'),
\* is not a quarantine candidate.
C12_QualificationStylesAgree ==
    CrossReferenced =>
        \A i \in 1..Len(FlakyRecords), k \in 1..Len(quarantined_list) :
            TrailingComponent(FlakyRecords[i].test_name)
                = TrailingComponent(quarantined_list[k].name)
            => \A j \in 1..Len(cross_reference.quarantine_candidates) :
                  Candidate(j) # FlakyRecords[i]

-----------------------------------------------------------------------------
(* The marker transformer: helper.py                                       *)
(*                                                                         *)
(* The file is a sequence of lines (splitlines); a line is its indentation *)
(* (the number of leading spaces) and its stripped text, kept as the       *)
(* sequence of the fragments the code looks at, so that startswith,        *)
(* endswith and "in" are computed on the text and not assumed.             *)

MaxOps == 2             \* operations run one after the other on the file

ScanBack == 52          \* _find_decorator_insert_line / remove: func_line - 52
TemplateIndent == 8     \* the indentation of the decorator template's lines

Ln(ind, toks) == [ ind |-> ind, toks |-> toks ]
BlankLine == Ln(0, << >>)
IsBlank(line) == line.toks = << >>

\* stripped.startswith(prefix)
StartsWith(toks, prefix) ==
    /\ Len(toks) >= Len(prefix)
    /\ SubSeq(toks, 1, Len(prefix)) = prefix

\* stripped.endswith(suffix)
EndsWith(toks, suffix) ==
    /\ Len(toks) >= Len(suffix)
    /\ SubSeq(toks, Len(toks) - Len(suffix) + 1, Len(toks)) = suffix

\* sub in stripped
Contains(toks, sub) ==
    \E i \in 1..(Len(toks) - Len(sub) + 1) : SubSeq(toks, i, i + Len(sub) - 1) = sub

\* stripped.count(fragment)
CountOf(toks, fragment) == Cardinality({ i \in 1..Len(toks) : toks[i] = fragment })

Max(a, b) == IF a >= b THEN a ELSE b

\* lines.insert(at - 1, block) for a 1-based line number at
InsertLines(lines, at, block) ==
    SubSeq(lines, 1, at - 1) \o block \o SubSeq(lines, at, Len(lines))

\* del lines[first - 1 : final] for 1-based line numbers
DeleteLines(lines, first, final) ==
    SubSeq(lines, 1, first - 1) \o SubSeq(lines, final + 1, Len(lines))

PYTEST_IMPORT == << "import", "pytest" >>
QUARANTINE_IMPORT == << "from", "quarantine_tools.constants", "import", "QUARANTINED" >>

XfailDecorator == << "@", "pytest.mark.xfail" >>
TripleQuote == "\"\"\""
QuoteStarts == { "\"", "'", "f\"", "f'" }

\* function names: test_a is a proper prefix of test_a_b
FnA == << "test_a" >>
FnAB == << "test_a", "_b" >>
FnMissing == << "test_zz" >>
FunctionNames == { FnA, FnAB, FnMissing }

DefLine(ind, name) == Ln(ind, << "def" >> \o name \o << "(", ")", ":" >>)
MethodLine(ind, name) == Ln(ind, << "def" >> \o name \o << "(", "self", ")", ":" >>)
PassLine(ind) == Ln(ind, << "pass" >>)
ImportLines == << Ln(0, PYTEST_IMPORT), Ln(0, QUARANTINE_IMPORT) >>

\* reason_text = f"{reason}, {jira_ticket}" if reason else jira_ticket
ReasonText(reason) == IF reason # "" THEN << reason, ", ", "CNV-1" >> ELSE << "CNV-1" >>

\* the f-string template of insert_quarantine_marker, before dedent
DecoratorTemplate(indentation, reason) ==
    << Ln(TemplateIndent + indentation, XfailDecorator \o << "(" >>),
       Ln(TemplateIndent + indentation + 4,
          << "reason=", "f\"", "{", "QUARANTINED", "}", ": " >> \o ReasonText(reason)
              \o << "\"", "," >>),
       Ln(TemplateIndent + indentation + 4, << "run=False", "," >>),
       Ln(TemplateIndent + indentation, << ")" >>) >>

MinIndent(lines) ==
    CHOOSE m \in { lines[i].ind : i \in 1..Len(lines) } :
        \A i \in 1..Len(lines) : m <= lines[i].ind

\* textwrap.dedent: the common leading whitespace of the lines is removed
Dedent(lines) ==
    [ i \in 1..Len(lines) |-> Ln(lines[i].ind - MinIndent(lines), lines[i].toks) ]

MarkerBlock(indentation, reason) == Dedent(DecoratorTemplate(indentation, reason))

-----------------------------------------------------------------------------
(* ast.parse, as far as the files of the model need it: parentheses,       *)
(* indentation, decorators and triple-quoted strings                       *)

ParseStart ==
    [ ok |-> TRUE,
      depth |-> 0,              \* open parentheses
      operand |-> FALSE,        \* the text so far ends with an operand
      decorator |-> << >>,      \* indentation of the decorators waiting for a def
      stack |-> << 0 >>,        \* indentation of the enclosing blocks
      block |-> FALSE,          \* the last statement ended with ":"
      docstring |-> FALSE ]     \* inside a triple-quoted string

Keywords == { "def", "class", "import", "from", "pass", "return" }

Last(s) == s[Len(s)]

RECURSIVE PopTo(_, _)
PopTo(stack, ind) ==
    IF Len(stack) > 1 /\ Last(stack) > ind
    THEN PopTo(SubSeq(stack, 1, Len(stack) - 1), ind)
    ELSE stack

NetOpen(toks) == CountOf(toks, "(") - CountOf(toks, ")")

\* a line inside parentheses: "@" is the matrix product and needs a left operand
ParseContinuation(st, line) ==
    LET depth == st.depth + NetOpen(line.toks)
    IN  [ st EXCEPT
            !.ok = /\ line.toks[1] \notin Keywords
                   /\ line.toks[1] = "@" => st.operand
                   /\ depth >= 0,
            !.depth = depth,
            !.operand = Last(line.toks) \notin { ",", "(" },
            !.block = depth = 0 /\ Last(line.toks) = ":" ]

\* the first line of a statement
ParseStatement(st, line) ==
    LET top == Last(st.stack)
        stack == IF st.block THEN Append(st.stack, line.ind) ELSE PopTo(st.stack, line.ind)
        depth == NetOpen(line.toks)
    IN  [ st EXCEPT
            !.ok = /\ IF st.block THEN line.ind > top ELSE Last(stack) = line.ind
                   /\ st.decorator # << >> =>
                         /\ line.toks[1] \in { "@", "def", "class" }
                         /\ line.ind = st.decorator[1]
                   /\ depth >= 0,
            !.stack = stack,
            !.depth = depth,
            !.operand = Last(line.toks) \notin { ",", "(" },
            !.decorator = IF line.toks[1] = "@" THEN << line.ind >> ELSE << >>,
            !.block = depth = 0 /\ Last(line.toks) = ":",
            !.docstring = CountOf(line.toks, TripleQuote) % 2 = 1 ]

ParseLine(st, line) ==
    IF ~st.ok THEN st
    ELSE IF st.docstring
    THEN [ st EXCEPT !.docstring = CountOf(line.toks, TripleQuote) % 2 = 0 ]
    ELSE IF IsBlank(line) \/ line.toks[1] = "#" THEN st
    ELSE IF st.depth > 0 THEN ParseContinuation(st, line)
    ELSE ParseStatement(st, line)

RECURSIVE ParseFrom(_, _, _)
ParseFrom(lines, k, st) ==
    IF k > Len(lines) THEN st ELSE ParseFrom(lines, k + 1, ParseLine(st, lines[k]))

\* parse(source=content) does not raise SyntaxError
Parses(lines) ==
    LET st == ParseFrom(lines, 1, ParseStart)
    IN  st.ok /\ st.depth = 0 /\ st.decorator = << >> /\ ~st.block /\ ~st.docstring

\* the FunctionDef nodes named function_name, by their def lines
DefLines(lines, function_name) ==
    { k \in 1..Len(lines) : StartsWith(lines[k].toks, << "def" >> \o function_name \o << "(" >>) }

\* the first matching node of ast.walk (breadth first: the least nested, then
\* the first)
FirstDef(lines, function_name) ==
    LET defs == DefLines(lines, function_name)
    IN  CHOOSE k \in defs :
            \A other \in defs :
                \/ lines[k].ind < lines[other].ind
                \/ lines[k].ind = lines[other].ind /\ k <= other

\* the messages of the ValueErrors of helper.py
FunctionNotFound == "Function not found in file."
NoMarkerFound == "No quarantine marker found for function"

\* a search that answers line 1 when no definition has the name
FindOrTop(lines, function_name) ==
    IF ~Parses(lines)
    THEN [ raised |-> "SyntaxError", message |-> "invalid syntax", line |-> 0 ]
    ELSE IF DefLines(lines, function_name) = {}
    THEN [ raised |-> "none", message |-> "", line |-> 1 ]
    ELSE [ raised |-> "none", message |-> "", line |-> FirstDef(lines, function_name) ]

\* the line of the definition, or the exception raised
find_function_line(lines, function_name) ==
    IF ~Parses(lines)
    THEN [ raised |-> "SyntaxError", message |-> "invalid syntax", line |-> 0 ]
    ELSE IF DefLines(lines, function_name) = {}
    THEN [ raised |-> "ValueError", message |-> FunctionNotFound, line |-> 0 ]
    ELSE [ raised |-> "none", message |-> "", line |-> FirstDef(lines, function_name) ]

\* func_line[: len(func_line) - len(func_line.lstrip())]
_get_function_indentation(lines, function_name) ==
    lines[find_function_line(lines, function_name).line].ind

-----------------------------------------------------------------------------
(* _find_decorator_insert_line and ensure_import                           *)

\* the last line (1-based) the backward scans of helper.py look at:
\* range(func_line - 2, max(0, func_line - 52) - 1, -1) over 0-based indices
ScanStop(func_line) == Max(0, func_line - ScanBack) + 1

\* the loop of _find_decorator_insert_line from line k upwards
RECURSIVE InsertLineScan(_, _, _, _)
InsertLineScan(lines, k, stop, insert_line) ==
    IF k < stop THEN insert_line
    ELSE LET stripped == lines[k].toks
         IN  IF stripped = << >> THEN insert_line
             ELSE IF StartsWith(stripped, << "class" >>) THEN insert_line
             ELSE IF StartsWith(stripped, << "@" >>)
                  THEN InsertLineScan(lines, k - 1, stop, k)
             ELSE IF \/ StartsWith(stripped, << ")" >>) \/ StartsWith(stripped, << "(" >>)
                     \/ EndsWith(stripped, << "," >>) \/ EndsWith(stripped, << "(" >>)
                  THEN InsertLineScan(lines, k - 1, stop, k)
             ELSE IF stripped[1] \in QuoteStarts
                  THEN InsertLineScan(lines, k - 1, stop, k)
             ELSE IF StartsWith(stripped, << "#" >>)
                  THEN InsertLineScan(lines, k - 1, stop, insert_line)
             ELSE insert_line

_find_decorator_insert_line(lines, function_name) ==
    LET func_line == find_function_line(lines, function_name).line
    IN  InsertLineScan(lines, func_line - 1, ScanStop(func_line), func_line)

\* existing_imports.split(","): the fragments between the commas, from
\* fragment k on
RECURSIVE SplitAtCommas(_, _, _)
SplitAtCommas(stripped, k, name) ==
    IF k > Len(stripped) THEN { name }
    ELSE IF stripped[k] = "," THEN { name } \cup SplitAtCommas(stripped, k + 1, << >>)
    ELSE SplitAtCommas(stripped, k + 1, Append(name, stripped[k]))

\* existing_names of "from X import a, b": one-word names only, any other
\* text between two commas is no name that imported_name can equal
ImportedNames(stripped) ==
    { name[1] : name \in { n \in SplitAtCommas(stripped, 4, << >>) : Len(n) = 1 } }

\* the import is already there: the three tests of ensure_import's first loop
ImportPresent(stripped, import_line) ==
    \/ stripped = import_line
    \/ /\ import_line[1] = "import"
       /\ \/ stripped = << "import", Last(import_line) >>
          \/ StartsWith(stripped, << "from", Last(import_line), "import" >>)
    \/ /\ import_line[1] = "from"
       /\ StartsWith(stripped, << "from", import_line[2], "import" >>)
       /\ import_line[4] \in ImportedNames(stripped)

IsImportLine(stripped) ==
    /\ \/ StartsWith(stripped, << "import" >>) \/ StartsWith(stripped, << "from" >>)
    /\ ~StartsWith(stripped, << "from", "__future__" >>)

\* the docstring scan of ensure_import from line k: the 1-based line to insert at
RECURSIVE DocstringScan(_, _, _, _)
DocstringScan(lines, k, in_docstring, insert_at) ==
    IF k > Len(lines) THEN insert_at
    ELSE LET stripped == lines[k].toks
         IN  IF StartsWith(stripped, << TripleQuote >>)
             THEN IF in_docstring THEN k + 1
                  ELSE IF CountOf(stripped, TripleQuote) >= 2
                       THEN DocstringScan(lines, k + 1, in_docstring, k + 1)
                       ELSE DocstringScan(lines, k + 1, TRUE, insert_at)
             ELSE IF ~in_docstring /\ stripped # << >> /\ ~StartsWith(stripped, << "#" >>)
                  THEN k
                  ELSE DocstringScan(lines, k + 1, in_docstring, insert_at)

ensure_import(lines, import_line) ==
    IF \E k \in 1..Len(lines) : ImportPresent(lines[k].toks, import_line)
    THEN lines
    ELSE LET imports == { k \in 1..Len(lines) : IsImportLine(lines[k].toks) }
         IN  IF imports # {}
             THEN LET last_import == CHOOSE k \in imports : \A other \in imports : other <= k
                  IN  InsertLines(lines, last_import + 1, << Ln(0, import_line) >>)
             ELSE InsertLines(lines, DocstringScan(lines, 1, FALSE, 1),
                              << Ln(0, import_line) >>)

-----------------------------------------------------------------------------
(* insert_quarantine_marker and remove_quarantine_marker up to write_text  *)

\* the content insert_quarantine_marker hands to write_text, or what it raises
InsertResult(lines, function_name, reason) ==
    LET found == find_function_line(lines, function_name)
        with_imports == ensure_import(ensure_import(lines, PYTEST_IMPORT), QUARANTINE_IMPORT)
        again == find_function_line(with_imports, function_name)
    IN  IF found.raised # "none"
        THEN [ raised |-> found.raised, message |-> found.message, content |-> lines ]
        ELSE IF again.raised # "none"
        THEN [ raised |-> again.raised, message |-> again.message, content |-> lines ]
        ELSE [ raised |-> "none", message |-> "",
               content |->
                   InsertLines(with_imports,
                               _find_decorator_insert_line(with_imports, function_name),
                               MarkerBlock(_get_function_indentation(with_imports, function_name),
                                           reason)) ]

BlockHasQuarantined(lines, first, last_line) ==
    \E k \in first..last_line : Contains(lines[k].toks, << "QUARANTINED" >>)

\* the forward scan for the closing parenthesis: lines k..func_line, 0 if none
RECURSIVE ClosingLine(_, _, _)
ClosingLine(lines, k, func_line) ==
    IF k > func_line THEN 0
    ELSE IF lines[k].toks = << ")" >> \/ EndsWith(lines[k].toks, << ")" >>) THEN k
    ELSE ClosingLine(lines, k + 1, func_line)

NoMarker == [ quarantine_start |-> 0, quarantine_end |-> 0 ]

\* the backward loop of remove_quarantine_marker from line k: the 1-based
\* first and last line of the marker, 0 for the code's -1
RECURSIVE RemoveScan(_, _, _, _, _)
RemoveScan(lines, k, stop, func_line, function_name) ==
    IF k < stop THEN NoMarker
    ELSE LET stripped == lines[k].toks
         IN  IF stripped = << >> THEN NoMarker
             ELSE IF Contains(stripped, XfailDecorator)
             THEN IF EndsWith(stripped, << ")" >>)
                  THEN IF Contains(stripped, << "QUARANTINED" >>)
                       THEN [ quarantine_start |-> k, quarantine_end |-> k ]
                       ELSE NoMarker
                  ELSE LET closing == ClosingLine(lines, k + 1, func_line)
                       IN  IF closing # 0 /\ BlockHasQuarantined(lines, k, closing)
                           THEN [ quarantine_start |-> k, quarantine_end |-> closing ]
                           ELSE NoMarker
             ELSE IF /\ \/ StartsWith(stripped, << "def" >>) \/ StartsWith(stripped, << "class" >>)
                     /\ ~StartsWith(stripped, << "def" >> \o function_name)
                  THEN NoMarker
             ELSE RemoveScan(lines, k - 1, stop, func_line, function_name)

\* the content remove_quarantine_marker hands to write_text, or what it raises
RemoveResult(lines, function_name) ==
    LET found == find_function_line(lines, function_name)
        marker == RemoveScan(lines, found.line - 1, ScanStop(found.line),
                             found.line, function_name)
    IN  IF found.raised # "none"
        THEN [ raised |-> found.raised, message |-> found.message, content |-> lines ]
        ELSE IF marker.quarantine_start = 0
        THEN [ raised |-> "ValueError", message |-> NoMarkerFound, content |-> lines ]
        ELSE [ raised |-> "none", message |-> "",
               content |-> DeleteLines(lines, marker.quarantine_start, marker.quarantine_end) ]

-----------------------------------------------------------------------------
(* ruff format, as far as the files of the model need it: a top-level      *)
(* definition with its decorators is set off by two blank lines            *)

RECURSIVE DepthBefore(_, _)
DepthBefore(lines, k) ==
    IF k = 1 THEN 0 ELSE DepthBefore(lines, k - 1) + NetOpen(lines[k - 1].toks)

IsStatement(lines, k) == ~IsBlank(lines[k]) /\ DepthBefore(lines, k) = 0

\* line k opens a top-level definition: its first decorator, or its def/class line
IsDefinitionStart(lines, k) ==
    /\ IsStatement(lines, k)
    /\ lines[k].ind = 0
    /\ lines[k].toks[1] \in { "@", "def", "class" }
    /\ LET before == { j \in 1..(k - 1) : IsStatement(lines, j) }
       IN  before # {} =>
             LET previous == CHOOSE j \in before : \A other \in before : other <= j
             IN  lines[previous].toks[1] # "@"

RECURSIVE StripTrailingBlanks(_)
StripTrailingBlanks(lines) ==
    IF lines # << >> /\ IsBlank(Last(lines))
    THEN StripTrailingBlanks(SubSeq(lines, 1, Len(lines) - 1))
    ELSE lines

RECURSIVE FormatFrom(_, _, _)
FormatFrom(lines, k, out) ==
    IF k > Len(lines) THEN out
    ELSE IF IsDefinitionStart(lines, k)
    THEN LET kept == StripTrailingBlanks(out)
         IN  FormatFrom(lines, k + 1,
                        IF kept = << >> THEN << lines[k] >>
                        ELSE kept \o << BlankLine, BlankLine, lines[k] >>)
    ELSE FormatFrom(lines, k + 1, Append(out, lines[k]))

RuffFormat(lines) == FormatFrom(lines, 1, << >>)

-----------------------------------------------------------------------------
(* The test files the operations start from                                *)

KnownXfail == Ln(0, XfailDecorator \o << "(", "reason=", "\"", "known", "\"", ")" >>)

\* two plain tests
FilePlain ==
    ImportLines \o << BlankLine, BlankLine, DefLine(0, FnA), PassLine(4),
                      BlankLine, BlankLine, DefLine(0, FnAB), PassLine(4) >>

\* a test that already carries an expected-failure decorator of its own
FileDecorated ==
    ImportLines \o << BlankLine, BlankLine, KnownXfail, DefLine(0, FnA), PassLine(4) >>

\* a quarantined test_a_b directly followed, without a blank line, by test_a
FilePrefix ==
    ImportLines \o << BlankLine, BlankLine >> \o MarkerBlock(0, "flaky")
        \o << DefLine(0, FnAB), PassLine(4), DefLine(0, FnA), PassLine(4) >>

\* a test method of a class
FileMethod ==
    ImportLines \o << BlankLine, BlankLine, Ln(0, << "class", "TestX", ":" >>),
                      MethodLine(4, FnA), PassLine(8) >>

\* a module docstring and no import
FileNoImports ==
    << Ln(0, << TripleQuote, "Doc.", TripleQuote >>), BlankLine, BlankLine,
       DefLine(0, FnA), PassLine(4) >>

\* the only import of the file is inside a function body
FileBodyImport ==
    << DefLine(0, << "helper" >>), Ln(4, << "import", "os" >>), Ln(4, << "return", "os" >>),
       BlankLine, BlankLine, DefLine(0, FnA), PassLine(4) >>

\* a test under a decorator that spans lines
FileParametrized ==
    ImportLines \o << BlankLine, BlankLine,
                      Ln(0, << "@", "pytest.mark.parametrize", "(" >>),
                      Ln(4, << "\"", "x", "\"", "," >>),
                      Ln(4, << "[1, 2]", "," >>),
                      Ln(0, << ")" >>),
                      DefLine(0, FnA), PassLine(4) >>

\* a test under a decorator whose arguments share one line, which therefore
\* ends without a comma
FileHugged ==
    ImportLines \o << BlankLine, BlankLine,
                      Ln(0, << "@", "pytest.mark.skipif", "(" >>),
                      Ln(4, << "IS_ARM", ",", "reason=", "\"", "arm", "\"" >>),
                      Ln(0, << ")" >>),
                      DefLine(0, FnA), PassLine(4) >>

\* a quarantine marker written by hand, its arguments on one line that ends
\* with the parenthesis of the last argument
FileHuggedMarker ==
    ImportLines \o << BlankLine, BlankLine,
                      Ln(0, XfailDecorator \o << "(" >>),
                      Ln(4, << "reason=", "f\"", "{", "QUARANTINED", "}", ": ", "CNV-1", "\"", ",",
                               "run=False", ",", "raises=", "(", "OSError", ")" >>),
                      Ln(0, << ")" >>),
                      DefLine(0, FnA), PassLine(4) >>

\* a file that imports a name from pytest, not pytest itself
FileFromPytest ==
    << Ln(0, << "from", "pytest", "import", "mark" >>), Ln(0, QUARANTINE_IMPORT),
       BlankLine, BlankLine, DefLine(0, FnA), PassLine(4) >>

Files == { FilePlain, FileDecorated, FilePrefix, FileMethod, FileNoImports,
           FileBodyImport, FileParametrized, FileHugged, FileHuggedMarker,
           FileFromPytest }

Reasons == { "", "flaky" }

-----------------------------------------------------------------------------
(* The operations: command_apply and command_remove on one file            *)

NoOperation == [ kind |-> "none" ]

Operation(kind, function_name, reason) ==
    [ kind |-> kind, function_name |-> function_name, reason |-> reason,
      before |-> file, content |-> file, message |-> "" ]

\* the operation ends: with exception "none" it returned
Finish(operation, exception) ==
    /\ last' = [ kind |-> operation.kind, function_name |-> operation.function_name,
                 reason |-> operation.reason, before |-> operation.before,
                 content |-> operation.content, raised |-> exception,
                 message |-> IF exception = "OSError" THEN "" ELSE operation.message ]
    /\ prev' = last
    /\ cur' = NoOperation
    /\ pending' = << >>
    /\ raised' = exception
    /\ pc' = "idle"

\* the operation has its new content and goes on to write_text
Start(operation) ==
    /\ cur' = operation
    /\ pending' = operation.content
    /\ pc' = "write"
    /\ UNCHANGED << raised, last, prev >>

InitMarker ==
    /\ pc = "idle"
    /\ raised = "none"
    /\ TrendIdle /\ FlakyIdle /\ HealthIdle
    /\ file \in Files
    /\ pending = << >>
    /\ cur = NoOperation
    /\ last = NoOperation
    /\ prev = NoOperation
    /\ nops = 0

\* insert_quarantine_marker up to the call of write_text
InsertQuarantineMarker(function_name, reason) ==
    /\ pc = "idle"
    /\ nops < MaxOps
    /\ nops' = nops + 1
    /\ LET result == InsertResult(file, function_name, reason)
           operation == [ Operation("apply", function_name, reason)
                            EXCEPT !.content = result.content,
                                   !.message = result.message ]
       IN  IF result.raised # "none"
           THEN Finish(operation, result.raised)
           ELSE Start(operation)
    /\ UNCHANGED << file, trend_vars, flaky_vars, health_vars >>

\* remove_quarantine_marker up to the call of write_text
RemoveQuarantineMarker(function_name) ==
    /\ pc = "idle"
    /\ nops < MaxOps
    /\ nops' = nops + 1
    /\ LET result == RemoveResult(file, function_name)
           operation == [ Operation("remove", function_name, "")
                            EXCEPT !.content = result.content,
                                   !.message = result.message ]
       IN  IF result.raised # "none"
           THEN Finish(operation, result.raised)
           ELSE Start(operation)
    /\ UNCHANGED << file, trend_vars, flaky_vars, health_vars >>

\* write_text opens the file for writing: the file is truncated
WriteTextOpen ==
    /\ pc = "write"
    /\ file' = << >>
    /\ pc' = "writing"
    /\ UNCHANGED << raised, pending, cur, last, prev, nops,
                    trend_vars, flaky_vars, health_vars >>

\* the file cannot be opened for writing: OSError
WriteTextOpenFails ==
    /\ pc = "write"
    /\ Finish(cur, "OSError")
    /\ UNCHANGED << file, nops, trend_vars, flaky_vars, health_vars >>

\* the data is written and the file closed
WriteTextData ==
    /\ pc = "writing"
    /\ file' = pending
    /\ pc' = "format"
    /\ UNCHANGED << raised, pending, cur, last, prev, nops,
                    trend_vars, flaky_vars, health_vars >>

\* how many lines reached the file when the write failed
WrittenBeforeFailure(content) == { 0, Len(content) \div 2 }

\* the write fails after the truncation: OSError
WriteTextDataFails ==
    /\ pc = "writing"
    /\ \E written \in WrittenBeforeFailure(pending) :
          file' = SubSeq(pending, 1, written)
    /\ Finish(cur, "OSError")
    /\ UNCHANGED << nops, trend_vars, flaky_vars, health_vars >>

\* a decorator line inside the parentheses of another expression: the text
\* parses as a matrix product, and what ruff makes of that expression is not
\* part of RuffFormat
NestedDecorator(lines) ==
    \E k \in 1..Len(lines) :
        ~IsBlank(lines[k]) /\ lines[k].toks[1] = "@" /\ DepthBefore(lines, k) > 0

\* _run_ruff_format: a failure is only logged; the run counts as failed on a
\* text RuffFormat does not cover
RunRuffFormat ==
    /\ pc = "format"
    /\ \E success \in { s \in BOOLEAN : s => Parses(file) /\ ~NestedDecorator(file) } :
          file' = IF success THEN RuffFormat(file) ELSE file
    /\ Finish(cur, "none")
    /\ UNCHANGED << nops, trend_vars, flaky_vars, health_vars >>

NextMarker ==
    \/ \E function_name \in FunctionNames, reason \in Reasons :
          InsertQuarantineMarker(function_name, reason)
    \/ \E function_name \in FunctionNames : RemoveQuarantineMarker(function_name)
    \/ WriteTextOpen
    \/ WriteTextOpenFails
    \/ WriteTextData
    \/ WriteTextDataFails
    \/ RunRuffFormat

SpecMarker == InitMarker /\ [][NextMarker]_vars

-----------------------------------------------------------------------------
(* What a function of the file consists of, read off the text itself       *)

OtherFunction == << "helper" >>
AllFunctions == FunctionNames \cup { OtherFunction }

\* the first line of the decorators of the definition at line k
RECURSIVE AnnotationStart(_, _)
AnnotationStart(lines, k) ==
    LET above == { j \in 1..(k - 1) : IsStatement(lines, j) }
        previous == CHOOSE j \in above : \A other \in above : other <= j
    IN  IF /\ above # {}
           /\ lines[previous].toks[1] = "@"
           /\ \A j \in previous..(k - 1) : ~IsBlank(lines[j])
        THEN AnnotationStart(lines, previous)
        ELSE k

\* the last line of the body of the definition at line k
RECURSIVE BodyEnd(_, _, _)
BodyEnd(lines, k, ind) ==
    IF k < Len(lines) /\ ~IsBlank(lines[k + 1]) /\ lines[k + 1].ind > ind
    THEN BodyEnd(lines, k + 1, ind)
    ELSE k

RECURSIVE BlanksAbove(_, _)
BlanksAbove(lines, k) ==
    IF k > 1 /\ IsBlank(lines[k - 1]) THEN 1 + BlanksAbove(lines, k - 1) ELSE 0

RECURSIVE BlanksBelow(_, _)
BlanksBelow(lines, k) ==
    IF k < Len(lines) /\ IsBlank(lines[k + 1]) THEN 1 + BlanksBelow(lines, k + 1) ELSE 0

\* the decorator/annotation region: first annotation line through the def line
AnnotationRegion(lines, function_name) ==
    LET def_line == FirstDef(lines, function_name)
    IN  SubSeq(lines, AnnotationStart(lines, def_line), def_line)

\* the function with what surrounds it
FunctionBlock(lines, function_name) ==
    LET def_line == FirstDef(lines, function_name)
        first == AnnotationStart(lines, def_line)
        final == BodyEnd(lines, def_line, lines[def_line].ind)
    IN  [ annotations |-> SubSeq(lines, first, def_line),
          body |-> SubSeq(lines, def_line + 1, final),
          blank_above |-> BlanksAbove(lines, first),
          blank_below |-> BlanksBelow(lines, final) ]

\* the lines of the region that open a quarantine marker: an xfail decorator
\* whose statement names QUARANTINED
MarkerStarts(region) ==
    { k \in 1..Len(region) :
        /\ IsStatement(region, k)
        /\ StartsWith(region[k].toks, XfailDecorator)
        /\ \E j \in k..Len(region) :
              /\ \A i \in (k + 1)..j : ~IsStatement(region, i)
              /\ Contains(region[j].toks, << "QUARANTINED" >>) }

MarkerCount(lines, function_name) ==
    Cardinality(MarkerStarts(AnnotationRegion(lines, function_name)))

Returned(operation, kind) ==
    pc = "idle" /\ operation.kind = kind /\ operation.raised = "none"

-----------------------------------------------------------------------------
(* Claims about the marker transformer                                     *)

\* C4: after an Apply that returned, the function carries at most one
\* quarantine marker block: an Apply on an already-marked function is rejected
\* or leaves exactly one block above the function.
C4_AtMostOneMarker ==
    Returned(last, "apply") => MarkerCount(file, last.function_name) <= 1

\* C5: when an Apply on a function returned and a Remove on the same function
\* follows (and the file system does not fail it), the Remove returns and the
\* function's annotation region, first annotation through def line, is line
\* for line what it was before the Apply.
C5_ApplyThenRemoveRestores ==
    ( /\ pc = "idle"
      /\ last.kind = "remove" /\ last.raised # "OSError"
      /\ Returned(prev, "apply")
      /\ prev.function_name = last.function_name )
    => /\ last.raised = "none"
       /\ AnnotationRegion(file, last.function_name)
            = AnnotationRegion(prev.before, last.function_name)

\* C6: an Apply or a Remove on f that returned leaves every other function g
\* of the file as it was: the same annotation lines, the same body lines and
\* the same number of blank lines above and below.
C6_OtherFunctionsUnchanged ==
    ( pc = "idle" /\ last.kind # "none" /\ last.raised = "none" )
    => \A g \in AllFunctions \ { last.function_name } :
          DefLines(last.before, g) # {}
          => /\ DefLines(file, g) # {}
             /\ FunctionBlock(file, g) = FunctionBlock(last.before, g)

\* C7: once an operation has started to persist its edit, and also after the
\* write failed or was interrupted, the file holds either the complete content
\* of before the operation or the complete edited content.
C7_WriteIsAtomic ==
    /\ pc \in { "write", "writing", "format" } => file \in { cur.before, cur.content }
    /\ ( pc = "idle" /\ last.kind # "none" /\ last.raised = "OSError" )
       => file \in { last.before, last.content }

\* the operation that finished last was called for a name no def line has
FunctionAbsent ==
    /\ pc = "idle"
    /\ last.kind # "none"
    /\ DefLines(last.before, last.function_name) = {}

Removed ==
    /\ pc = "idle"
    /\ last.kind = "remove"
    /\ last.raised # "OSError"
    /\ Parses(last.before)
    /\ DefLines(last.before, last.function_name) # {}

\* C17: Remove fails with "no quarantine marker found" if and only if no
\* annotation block of the target function's annotation stack contains
\* QUARANTINED; when it fails the file is unchanged; a block of the stack that
\* holds QUARANTINED, single-line or multi-line, at any position, is found.
C17_NoMarkerFoundIffNone ==
    Removed =>
        /\ (last.raised = "ValueError" /\ last.message = NoMarkerFound)
              <=> MarkerCount(last.before, last.function_name) = 0
        /\ last.raised # "none" => file = last.before
        /\ MarkerCount(last.before, last.function_name) > 0 => last.raised = "none"

\* C18: the marker block Apply wrote starts and closes at the indentation of
\* the target's def line: every quarantine marker of the function's annotation
\* region opens at the column of the def line and is followed by a closing
\* line at that column.
C18_MarkerAtDefIndentation ==
    Returned(last, "apply") =>
        LET region == AnnotationRegion(last.content, last.function_name)
            def_ind == region[Len(region)].ind
        IN  /\ MarkerStarts(region) # {}
            /\ \A k \in MarkerStarts(region) :
                  /\ region[k].ind = def_ind
                  /\ \E j \in (k + 1)..Len(region) :
                        /\ region[j] = Ln(def_ind, << ")" >>)
                        /\ \A i \in (k + 1)..j : ~IsStatement(region, i)

\* the lines of a file that open a quarantine marker, wherever they stand
MarkerLines(lines) ==
    { k \in 1..Len(lines) :
        /\ StartsWith(lines[k].toks, XfailDecorator)
        /\ \E j \in k..Len(lines) :
              /\ \A i \in k..(j - 1) : lines[i].toks # << ")" >>
              /\ Contains(lines[j].toks, << "QUARANTINED" >>) }

\* C19: the content Apply writes has the marker block on the line before the
\* first line of the function's annotation stack: the stack now opens with a
\* quarantine marker, so no earlier annotation of the function lies above it,
\* and no marker of the file stands inside the parentheses of another
\* annotation.
C19_MarkerOutermost ==
    Returned(last, "apply") =>
        /\ 1 \in MarkerStarts(AnnotationRegion(last.content, last.function_name))
        /\ \A k \in MarkerLines(last.content) : IsStatement(last.content, k)

-----------------------------------------------------------------------------
(* ensure_import on the text itself: splitlines(keepends=True), insert,    *)
(* join. A content is its lines and whether the last one ends with a       *)
(* newline.                                                                *)

Text(lines, newline) == [ lines |-> lines, newline |-> newline ]

\* "".join of a last line without a newline and import_line + "\n": the last
\* word of the line and the first word of the import line become one word; a
\* closing docstring quote stays a fragment of its own, as count('"""') still
\* finds it in the joined text
GluedLine(line, import_line) ==
    Ln(line.ind,
       IF Last(line.toks) = TripleQuote
       THEN line.toks \o import_line
       ELSE SubSeq(line.toks, 1, Len(line.toks) - 1)
                \o << Last(line.toks) \o Head(import_line) >> \o Tail(import_line))

\* ensure_import as called: helper.py works on the lines with their line ends
ensure_import_text(content, import_line) ==
    LET lines == content.lines
        result == ensure_import(lines, import_line)
    IN  IF result = lines THEN content
        ELSE IF ~content.newline /\ result = Append(lines, Ln(0, import_line))
        THEN Text(SubSeq(lines, 1, Len(lines) - 1)
                      \o << GluedLine(Last(lines), import_line) >>, TRUE)
        ELSE Text(result, content.newline)

\* a file whose import line names two things of the module
FileMultiImport ==
    << Ln(0, PYTEST_IMPORT),
       Ln(0, << "from", "quarantine_tools.constants", "import", "FOO", ",", "QUARANTINED" >>),
       BlankLine, BlankLine, DefLine(0, FnA), PassLine(4) >>

\* a file whose import statement spans several lines
FileParenImport ==
    << Ln(0, << "from", "quarantine_tools.constants", "import", "(" >>),
       Ln(4, << "FOO", "," >>),
       Ln(0, << ")" >>),
       BlankLine, BlankLine, DefLine(0, FnA), PassLine(4) >>

\* a file whose only import is a future import
FileFuture ==
    << Ln(0, << "from", "__future__", "import", "annotations" >>),
       BlankLine, BlankLine, DefLine(0, FnA), PassLine(4) >>

ImportFiles == Files \cup { FileMultiImport, FileParenImport, FileFuture }

\* the contents ensure_import is called with: every file cut after any of its
\* lines, with and without the newline at the end of the last line
Contents ==
    { content \in UNION { { Text(SubSeq(f, 1, n), newline) :
                              n \in 0..Len(f), newline \in BOOLEAN } :
                          f \in ImportFiles } :
        ~content.newline => content.lines # << >> /\ ~IsBlank(Last(content.lines)) }

OS_IMPORT == << "import", "os" >>

\* the two import lines insert_quarantine_marker passes, and one more
ImportsToEnsure == { PYTEST_IMPORT, QUARANTINE_IMPORT, OS_IMPORT }

NotCalled == [ kind |-> "none" ]

InitImport ==
    /\ pc = "call"
    /\ raised = "none"
    /\ TrendIdle /\ FlakyIdle /\ HealthIdle
    /\ file = << >> /\ pending = << >> /\ nops = 0
    /\ \E content \in Contents, import_line \in ImportsToEnsure :
          cur = [ kind |-> "ensure_import", content |-> content, import_line |-> import_line ]
    /\ last = NotCalled
    /\ prev = NotCalled

\* ensure_import(content, import_line)
EnsureImport ==
    /\ pc = "call"
    /\ last' = [ cur EXCEPT !.content = ensure_import_text(cur.content, cur.import_line) ]
    /\ pc' = "once"
    /\ UNCHANGED << raised, file, pending, cur, prev, nops,
                    trend_vars, flaky_vars, health_vars >>

\* ensure_import on the result, with the same import line
EnsureImportAgain ==
    /\ pc = "once"
    /\ prev' = [ last EXCEPT !.content = ensure_import_text(last.content, last.import_line) ]
    /\ pc' = "twice"
    /\ UNCHANGED << raised, file, pending, cur, last, nops,
                    trend_vars, flaky_vars, health_vars >>

NextImport ==
    \/ EnsureImport
    \/ EnsureImportAgain

SpecImport == InitImport /\ [][NextImport]_vars

\* stripped == import_line for a line of the content
HoldsExactLine(content, import_line) ==
    \E k \in 1..Len(content.lines) : content.lines[k].toks = import_line

\* a "from <module> import a, b" line of the same module names the imported name
HoldsName(content, import_line) ==
    /\ import_line[1] = "from"
    /\ \E k \in 1..Len(content.lines) :
          LET stripped == content.lines[k].toks
          IN  /\ StartsWith(stripped, << "from", import_line[2], "import" >>)
              /\ \E i \in 4..Len(stripped) : stripped[i] = import_line[4]

\* C20: ensure_import is idempotent, ensure_import(ensure_import(c, l), l) =
\* ensure_import(c, l) for every content c and import line l, and returns c
\* itself when c holds l as a line or holds the imported name in a multi-name
\* import line of the same module.
C20_EnsureImportIdempotent ==
    /\ pc = "twice" => prev.content = last.content
    /\ pc # "call" /\ (HoldsExactLine(cur.content, cur.import_line)
                         \/ HoldsName(cur.content, cur.import_line))
          => last.content = cur.content

-----------------------------------------------------------------------------
(* Where an import belongs, read off the statements of the text            *)

\* the first lines of the import statements at module level, future imports
\* left out
TopLevelImports(lines) ==
    { k \in 1..Len(lines) :
        /\ IsStatement(lines, k)
        /\ lines[k].ind = 0
        /\ lines[k].toks[1] \in { "import", "from" }
        /\ ~StartsWith(lines[k].toks, << "from", "__future__" >>) }

\* the line on which the statement that starts at line k ends
StatementEnd(lines, k) ==
    CHOOSE j \in k..Len(lines) :
        /\ DepthBefore(lines, j + 1) = 0
        /\ \A i \in k..(j - 1) : DepthBefore(lines, i + 1) > 0

Statements(lines) == { k \in 1..Len(lines) : IsStatement(lines, k) }

\* the text opens with a docstring
HasDocstring(lines) ==
    /\ Statements(lines) # {}
    /\ LET first == CHOOSE k \in Statements(lines) : \A j \in Statements(lines) : k <= j
       IN  lines[first].toks[1] = TripleQuote

\* the line after which, by the rule, the import line is to stand: after the
\* last import statement at module level; without one, after the docstring
\* and before the next statement; at the top otherwise
PlacesToInsertAt(lines) ==
    LET imports == TopLevelImports(lines)
        first == CHOOSE k \in Statements(lines) : \A j \in Statements(lines) : k <= j
        rest == Statements(lines) \ { first }
    IN  IF imports # {}
        THEN { StatementEnd(lines, CHOOSE k \in imports : \A j \in imports : j <= k) + 1 }
        ELSE IF HasDocstring(lines)
        THEN { p \in (first + 1)..(Len(lines) + 1) : \A k \in rest : p <= k }
        ELSE { 1 }

\* an ensure_import call on a text that parses and ends with a newline has
\* added a line
LineAdded ==
    /\ pc # "call"
    /\ cur.content.newline
    /\ Parses(cur.content.lines)
    /\ last.content # cur.content

\* C21: the line ensure_import adds stands right after the end of the last
\* import statement at module level that is no future import (after the whole
\* statement when it spans lines; imports inside function bodies do not
\* count); without such an import after the leading docstring; at the top of
\* the file otherwise.
C21_ImportPlacement ==
    LineAdded =>
        \E p \in PlacesToInsertAt(cur.content.lines) :
            last.content.lines
                = InsertLines(cur.content.lines, p, << Ln(0, cur.import_line) >>)

\* the future imports of a text
FutureImports(lines) ==
    { k \in 1..Len(lines) : StartsWith(lines[k].toks, << "from", "__future__", "import" >>) }

\* C27: when ensure_import adds a line, every future import of the input
\* still stands above the added line, also when the future import is the only
\* import of the file.
C27_FutureImportsStayFirst ==
    pc # "call" =>
        \A p \in 1..(Len(cur.content.lines) + 1) :
            /\ last.content # cur.content
            /\ last.content.lines
                  = InsertLines(cur.content.lines, p, << Ln(0, cur.import_line) >>)
            => \A k \in FutureImports(cur.content.lines) : k < p

-----------------------------------------------------------------------------
(* What Remove takes out of the file                                       *)

\* the lines on which the parentheses opened from line k on are closed again
BlockEnds(lines, k) ==
    { j \in k..Len(lines) :
        /\ DepthBefore(lines, j + 1) = DepthBefore(lines, k)
        /\ \A i \in k..(j - 1) : DepthBefore(lines, i + 1) > DepthBefore(lines, k) }

\* C22: a Remove that returned wrote the file without the lines of one marker
\* block that holds the sentinel, from its opening "@pytest.mark.xfail" line
\* through the line that closes the block, and with every other line as it
\* was and where it was.
C22_RemoveDeletesExactlyTheBlock ==
    Returned(last, "remove") =>
        \E k \in MarkerLines(last.before) :
            \E j \in BlockEnds(last.before, k) :
                last.content = DeleteLines(last.before, k, j)

-----------------------------------------------------------------------------
(* The fields of a de-quarantine candidate                                 *)

\* C25: in every candidate check_quarantine_health has collected, the reason
\* is "both" exactly when the ticket is resolved and the pass count reaches
\* the threshold, "jira_resolved" exactly when the ticket is resolved and the
\* count is below the threshold, "passing_consistently" exactly when the
\* ticket is not resolved and the count reaches the threshold; and the ticket
\* is resolved only for a record that names a ticket.
C25_CandidateFieldsAgree ==
    \A i \in 1..Len(candidates) :
        LET candidate == candidates[i]
            resolved == candidate.jira_resolved
            enough == candidate.consecutive_pass_count >= consecutive_passes
        IN  /\ candidate.reason = "both" <=> resolved /\ enough
            /\ candidate.reason = "jira_resolved" <=> resolved /\ ~enough
            /\ candidate.reason = "passing_consistently" <=> ~resolved /\ enough
            /\ resolved => candidate.jira_ticket # ""

C25_Witness ==
    /\ pc = "done"
    /\ consecutive_passes = DefaultConsecutivePasses
    /\ Len(candidates) = 2
    /\ candidates[1].reason = "jira_resolved"
    /\ candidates[1].consecutive_pass_count = DefaultConsecutivePasses - 1
    /\ candidates[2].reason = "passing_consistently"
    /\ candidates[2].consecutive_pass_count = DefaultConsecutivePasses
    /\ candidates[2].jira_ticket = ""

-----------------------------------------------------------------------------
(* The names the marker uses                                               *)

\* a statement at module level binds the name: "import name", or
\* "from module import ..., name, ..."
BoundAtModuleLevel(lines, name) ==
    \E k \in 1..Len(lines) :
        /\ IsStatement(lines, k)
        /\ lines[k].ind = 0
        /\ \/ lines[k].toks = << "import", name >>
           \/ /\ lines[k].toks[1] = "from"
              /\ Len(lines[k].toks) >= 4
              /\ lines[k].toks[3] = "import"
              /\ \E i \in 4..Len(lines[k].toks) : lines[k].toks[i] = name

\* C26: the content an Apply that returned has written binds, at module
\* level, both names the marker uses: "pytest" and "QUARANTINED". A line
\* "from pytest import x", or the import inside a function body, does not
\* bind them.
C26_MarkerNamesBound ==
    Returned(last, "apply") =>
        /\ BoundAtModuleLevel(last.content, "pytest")
        /\ BoundAtModuleLevel(last.content, "QUARANTINED")

-----------------------------------------------------------------------------
(* The records the two de-quarantine paths look at                         *)

\* the names of the scan records whose marker is present: what
\* check_quarantine_health evaluates
MarkedNames == { QuarantinedTests(quarantined_list)[i].name :
                   i \in 1..Len(QuarantinedTests(quarantined_list)) }

\* C29: every test cross_reference_quarantined returns as de-quarantine
\* candidate is a scan record whose marker-present flag is true, as every
\* candidate of check_quarantine_health is by its filter: both paths look at
\* the same records.
C29_CandidatesAreMarked ==
    pc = "done" =>
        \A i \in 1..Len(cross_reference.dequarantine_candidates) :
            cross_reference.dequarantine_candidates[i] \in MarkedNames

-----------------------------------------------------------------------------
(* parse_test_path, step by step. A test path is the sequence of its parts *)
(* between the "::" separators; the file system answers the existence      *)
(* check either way.                                                       *)

FileStrings == { "tests/test_x.py", "tests/test_y.py", "tests/notes.txt", "" }
NameStrings == { "", "test_a", "test_a_b" }

TestPaths ==
    { << f >> : f \in FileStrings }
        \cup { << f, n >> : f \in FileStrings, n \in NameStrings }
        \cup { << f, "TestX", n >> : f \in FileStrings, n \in NameStrings }

\* Path.suffix
Suffix(file_str) ==
    IF file_str \in { "tests/test_x.py", "tests/test_y.py" } THEN ".py"
    ELSE IF file_str = "tests/notes.txt" THEN ".txt"
    ELSE ""

\* test_path.rsplit("::", maxsplit=1)
FileStr(test_path) == SubSeq(test_path, 1, Len(test_path) - 1)
FunctionName(test_path) == test_path[Len(test_path)]

InvalidTestPath == "Invalid test path format"
FileDoesNotExist == "Test file does not exist"
NotAPythonFile == "Test file is not a Python file"
EmptyFunctionName == "Function name cannot be empty."

InitPath ==
    /\ pc = "separator"
    /\ raised = "none"
    /\ TrendIdle /\ FlakyIdle /\ HealthIdle
    /\ file = << >> /\ pending = << >> /\ nops = 0
    /\ \E test_path \in TestPaths :
          cur = [ kind |-> "parse_test_path", test_path |-> test_path,
                  accesses |-> << >>, message |-> "" ]
    /\ last = NotCalled
    /\ prev = NotCalled

PathRaises(message) ==
    /\ raised' = "ValueError"
    /\ cur' = [ cur EXCEPT !.message = message ]
    /\ pc' = "raised"

PathStep(next) ==
    /\ pc' = next
    /\ UNCHANGED << raised, cur >>

\* if "::" not in test_path: raise
CheckSeparator ==
    /\ pc = "separator"
    /\ IF Len(cur.test_path) < 2 THEN PathRaises(InvalidTestPath) ELSE PathStep("resolve")
    /\ UNCHANGED << file, pending, last, prev, nops, trend_vars, flaky_vars, health_vars >>

\* Path(file_str).resolve()
ResolvePath ==
    /\ pc = "resolve"
    /\ cur' = [ cur EXCEPT !.accesses = Append(@, "resolve") ]
    /\ pc' = "exists"
    /\ UNCHANGED << raised, file, pending, last, prev, nops,
                    trend_vars, flaky_vars, health_vars >>

\* if not file_path.exists(): raise
CheckExists ==
    /\ pc = "exists"
    /\ \E exists \in BOOLEAN :
          /\ cur' = [ cur EXCEPT !.accesses = Append(@, "exists"),
                                 !.message = IF exists THEN @ ELSE FileDoesNotExist ]
          /\ raised' = IF exists THEN raised ELSE "ValueError"
          /\ pc' = IF exists THEN "suffix" ELSE "raised"
    /\ UNCHANGED << file, pending, last, prev, nops, trend_vars, flaky_vars, health_vars >>

\* if not file_path.suffix == ".py": raise
CheckSuffix ==
    /\ pc = "suffix"
    /\ IF Suffix(Last(FileStr(cur.test_path))) # ".py"
       THEN PathRaises(NotAPythonFile) ELSE PathStep("name")
    /\ UNCHANGED << file, pending, last, prev, nops, trend_vars, flaky_vars, health_vars >>

\* if not function_name: raise; return file_path, function_name
CheckFunctionName ==
    /\ pc = "name"
    /\ IF FunctionName(cur.test_path) = ""
       THEN PathRaises(EmptyFunctionName) ELSE PathStep("returned")
    /\ UNCHANGED << file, pending, last, prev, nops, trend_vars, flaky_vars, health_vars >>

NextPath ==
    \/ CheckSeparator
    \/ ResolvePath
    \/ CheckExists
    \/ CheckSuffix
    \/ CheckFunctionName

SpecPath == InitPath /\ [][NextPath]_vars

\* no "::" in the test path, or nothing after the last "::"
Malformed(test_path) == Len(test_path) < 2 \/ FunctionName(test_path) = ""

\* C23: a malformed test path (no "::", or an empty function name after the
\* last "::") is rejected before the file system is asked anything: on such
\* an input no existence check is ever made, and the call ends with the error
\* of the malformed input.
C23_MalformedRejectedBeforeIO ==
    Malformed(cur.test_path) =>
        /\ \A i \in 1..Len(cur.accesses) : cur.accesses[i] # "exists"
        /\ pc # "returned"
        /\ pc = "raised" => cur.message \in { InvalidTestPath, EmptyFunctionName }

-----------------------------------------------------------------------------
(* determine_team_from_test_name on test identifiers                       *)

MaxSegments == 3        \* most segments of a test identifier

SegmentWords ==
    { "tests", "test_x", "virt", "network", "deprecated_api", "install_upgrade_operators" }
Separators == { "/", ".", "::" }

\* identifiers of n segments: segments and separators in turn
RECURSIVE Identifiers(_)
Identifiers(n) ==
    IF n = 1 THEN { << w >> : w \in SegmentWords }
    ELSE { id \o << sep, w >> : id \in Identifiers(n - 1), sep \in Separators, w \in SegmentWords }

TestIdentifiers == UNION { Identifiers(n) : n \in 1..MaxSegments }

InitTeam ==
    /\ pc = "call"
    /\ raised = "none"
    /\ TrendIdle /\ FlakyIdle /\ HealthIdle
    /\ file = << >> /\ pending = << >> /\ nops = 0
    /\ \E test_name \in TestIdentifiers :
          cur = [ kind |-> "determine_team", test_name |-> test_name, team |-> "" ]
    /\ last = NotCalled
    /\ prev = NotCalled

DetermineTeam ==
    /\ pc = "call"
    /\ cur' = [ cur EXCEPT !.team = determine_team_from_test_name(cur.test_name) ]
    /\ pc' = "done"
    /\ UNCHANGED << raised, file, pending, last, prev, nops,
                    trend_vars, flaky_vars, health_vars >>

NextTeam == DetermineTeam

SpecTeam == InitTeam /\ [][NextTeam]_vars

\* the segments of an identifier, left to right
Segments(test_name) ==
    SelectSeq(test_name, LAMBDA fragment : fragment \notin Separators)

\* the teams that list a directory, by their place in TEAM_MARKERS
TeamsListing(directory) ==
    { t \in 1..Len(TEAM_MARKERS) :
        \E i \in 1..Len(TEAM_MARKERS[t].directories) :
            TEAM_MARKERS[t].directories[i] = directory }

-----------------------------------------------------------------------------
(* The failure rate of a long history: _get_test_items collects the pages  *)
(* of the Results Store, get_test_failure_rate counts and rounds. The      *)
(* history is kept as its two counts. With at most MaxFailures failures in *)
(* whole pages no quotient is a tie of the rounding.                       *)

DEFAULT_PAGE_SIZE == 300
MaxPages == 67          \* most pages the Results Store reports for a test
MaxFailures == 2        \* most FAILED outcomes of a history

\* lines 235-239 on len(outcomes) and the count of FAILED outcomes
FailureRateOfCounts(failure_count, total) ==
    IF total = 0 THEN 0 ELSE Round2Percent(failure_count, total)

InitPages ==
    /\ pc = "fetch"
    /\ raised = "none"
    /\ history = << >> /\ trend = "unset" /\ rate = 0
    /\ FlakyIdle /\ HealthIdle
    /\ file = << >> /\ pending = << >> /\ nops = 0
    /\ \E total_pages \in 1..MaxPages :
          cur = [ kind |-> "get_test_failure_rate", total_pages |-> total_pages,
                  page |-> 1, total |-> 0, failed |-> 0 ]
    /\ last = NotCalled
    /\ prev = NotCalled

\* one round of the loop of _get_test_items: a page of items is added; the
\* last page may be empty
GetTestItemsPage ==
    /\ pc = "fetch"
    /\ \E items \in { 0, DEFAULT_PAGE_SIZE }, failures \in 0..1 :
          /\ items = 0 => cur.page = cur.total_pages /\ failures = 0
          /\ cur.failed + failures <= MaxFailures
          /\ cur' = [ cur EXCEPT !.total = @ + items,
                                 !.failed = @ + failures,
                                 !.page = IF cur.page >= cur.total_pages THEN @ ELSE @ + 1 ]
          /\ pc' = IF cur.page >= cur.total_pages THEN "rate" ELSE "fetch"
    /\ UNCHANGED << raised, history, trend, rate, file, pending, last, prev, nops,
                    flaky_vars, health_vars >>

\* get_test_failure_rate on the collected outcomes
RateOfPages ==
    /\ pc = "rate"
    /\ rate' = FailureRateOfCounts(cur.failed, cur.total)
    /\ pc' = "done"
    /\ UNCHANGED << raised, history, trend, cur, file, pending, last, prev, nops,
                    flaky_vars, health_vars >>

NextPages == GetTestItemsPage \/ RateOfPages

SpecPages == InitPages /\ [][NextPages]_vars

\* C28: for a history that is not empty the rate is 0.0 exactly when no
\* outcome is FAILED: the rounding to two decimals never makes the rate of a
\* history with a failure 0.0, so that the test of cross_reference_quarantined,
\* failure_rate == 0.0, lets a test with recorded runs through only if none of
\* them failed.
C28_ZeroRateIffNoFailure ==
    pc = "done" /\ cur.total > 0 => (rate = 0 <=> cur.failed = 0)
-----------------------------------------------------------------------------
(* Jira tickets: quarantine_jira.py, get_open_quarantine_tickets and       *)
(* check_quarantine_ticket_resolved on the same issues. An issue is its    *)
(* key and the name of its status; the server answers the search with the  *)
(* issues whose status is not Closed, whatever the case of the name.       *)

MaxTickets == 3         \* most issues with the quarantine label

JiraProjects == { "CNV", "cnv" }

\* line 114: re_match(r"^[A-Z][A-Z0-9_-]*$", project)
ProjectMatches(project) == project = "CNV"

RECURSIVE Issues(_, _)
Issues(statuses, k) ==
    IF k > Len(statuses) THEN << >>
    ELSE << [ key |-> k, status |-> statuses[k] ] >> \o Issues(statuses, k + 1)

\* the answer to the JQL query of line 117
NotClosed(issue) == Lower(issue.status) # "closed"
SearchIssues(statuses) == SelectSeq(Issues(statuses, 1), NotClosed)

\* line 137
ResolvedFlag(status_name) == Lower(status_name) \in { "closed", "resolved", "done" }

\* lines 129-139, one QuarantineTicket of the loop
QuarantineTicket(issue) ==
    [ ticket_id |-> issue.key, status |-> issue.status,
      resolved |-> ResolvedFlag(issue.status) ]

RECURSIVE TicketsOf(_)
TicketsOf(issues) ==
    IF issues = << >> THEN << >>
    ELSE << QuarantineTicket(Head(issues)) >> \o TicketsOf(Tail(issues))

InitJira ==
    /\ pc = "idle"
    /\ raised = "none"
    /\ TrendIdle /\ FlakyIdle /\ HealthIdle
    /\ file = << >> /\ pending = << >> /\ nops = 0
    /\ \E n \in 1..MaxTickets, project \in JiraProjects :
          \E statuses \in [ 1..n -> JiraStatusNames ] :
             cur = [ kind |-> "jira", project |-> project, statuses |-> statuses ]
    /\ last = NotCalled
    /\ prev = NotCalled

\* get_open_quarantine_tickets()
GetOpenQuarantineTickets ==
    /\ pc = "idle"
    /\ IF ~ProjectMatches(cur.project)
       THEN /\ raised' = "ValueError"
            /\ last' = NotCalled
       ELSE /\ raised' = "none"
            /\ last' = [ kind |-> "tickets",
                         tickets |-> TicketsOf(SearchIssues(cur.statuses)) ]
    /\ UNCHANGED << pc, trend_vars, cur, file, pending, prev, nops,
                    flaky_vars, health_vars >>

\* check_quarantine_ticket_resolved(ticket_id) for an issue that exists
CheckQuarantineTicketResolved ==
    /\ pc = "idle"
    /\ \E ticket_id \in 1..Len(cur.statuses) :
          prev' = [ kind |-> "checked", ticket_id |-> ticket_id,
                    resolved |-> check_quarantine_ticket_resolved(cur.statuses[ticket_id]) ]
    /\ raised' = "none"
    /\ UNCHANGED << pc, trend_vars, cur, file, pending, last, nops,
                    flaky_vars, health_vars >>

NextJira == GetOpenQuarantineTickets \/ CheckQuarantineTicketResolved

SpecJira == InitJira /\ [][NextJira]_vars

\* C30: the two predicates agree: a ticket that get_open_quarantine_tickets
\* returned carries the 'resolved' flag that check_quarantine_ticket_resolved
\* answers for the same issue, whatever the name of its status (Closed,
\* Resolved, Done, Open, in any case).
C30_ResolutionPredicatesAgree ==
    last.kind = "tickets" /\ prev.kind = "checked" =>
        \A i \in 1..Len(last.tickets) :
            last.tickets[i].ticket_id = prev.ticket_id =>
                last.tickets[i].resolved = prev.resolved
====
